---- MODULE Spec2Model ----
(***************************************************************************)
(* A model of dotlite, a read-only reader of the sqlite3 file format.      *)
(*                                                                         *)
(* The module holds one specification per component:                       *)
(*   PagerSpec      Pager.ReadPage, one call at a time                     *)
(*   PagerConcSpec  Pager.ReadPage, two calls interleaved on one source    *)
(*   OpenSpec       Open and Header.Valid                                  *)
(*   VarintSpec     Varint                                                 *)
(*   SpillSpec      TreeNode.computeBufferSize on the File of an Open      *)
(*   CellSpec       newNode and TreeNode.LoadCell with the overflow reader *)
(*   CellFairSpec   the same, with io.Copy running as long as it can       *)
(*   WalkSpec       Tree.Walk over decoded pages                           *)
(*   RecordSpec     NewRecord and Record.ValueAt                           *)
(*   SchemaSpec     File.Schema and File.Object                            *)
(* Every specification constrains all the variables; the variables of the  *)
(* components it does not exercise stay at their idle values.              *)
(***************************************************************************)
EXTENDS Integers, Sequences, FiniteSets, TLC

VARIABLES
    src,        \* Pager.file: the bytes of the underlying io.ReadSeeker
    srcPos,     \* Pager.file: its seek position (shared by every caller)
    srcMode,    \* Pager.file: "ok", or the operation that fails (errStream)
    pager,      \* Pager{size, pages}
    pc,         \* per caller: the position inside ReadPage
    arg,        \* per caller: the page id passed to ReadPage
    savedPos,   \* per caller: the local `pos` of ReadPage
    entryPos,   \* per caller: the seek position of the source when the call began
    ops,        \* per caller: calls made on Pager.file by the current ReadPage
    ret,        \* per caller: what ReadPage returned
    hdr,        \* Open: the 100-byte header of the source, as binary.Read decodes it
    fileLen,    \* Open: the length of the source in bytes
    opened,     \* Open: its outcome (a File, an error, or a run-time panic)
    vIn,        \* Varint: the bytes its io.ByteReader holds
    vOut,       \* Varint: what it returned, and the reader's position afterwards
    spP,        \* computeBufferSize: its argument P
    spOut,      \* computeBufferSize: the (total, local, overflow) it returned
    fx,         \* the parameters the database file of a cell specification is built from
    node,       \* the TreeNode that newNode parsed
    lc,         \* TreeNode.LoadCell: its position and local variables
    buffer,     \* TreeNode.LoadCell: the contents of its bytes.Buffer
    ov,         \* the overflow reader of the LoadCell in progress
    fetched,    \* the ids of the pages the overflow reader got from the pager, in order
    ovOut,      \* where the bytes the overflow reader returned were taken from, in order
    cell,       \* what LoadCell returned
    wt,         \* Tree.Walk: the pages of the tree, as newNode and LoadCell decode them
    wfail,      \* Tree.Walk: the call of the visitor that returns an error (0: none)
    wstack,     \* Tree.Walk: the calls of Tree.walk in progress, the innermost last
    wvisited,   \* Tree.Walk: the cells passed to the visitor, in order
    wreads,     \* Tree.Walk: the ids of the pages asked of the pager, in order
    wret,       \* Tree.Walk: its progress and what it returned
    rIn,        \* Record: the text encoding of the file and the values a cell holds
    rec,        \* Record: what NewRecord returned, with the cell and its cursor
    rOut,       \* Record: the column asked of ValueAt and what it returned
    sIn,        \* Schema: the text encoding, the cells the walk of page 1 meets, its failure
    sch,        \* Schema: the call in progress, with its local `objects`
    sOut,       \* Schema: what File.Schema returned
    oOut        \* Schema: what File.Object returned

pagerVars == <<src, srcPos, srcMode, pager, pc, arg, savedPos, entryPos, ops, ret>>

openVars == <<hdr, fileLen, opened>>

varintVars == <<vIn, vOut>>

spillVars == <<spP, spOut>>

cellVars == <<fx, node, lc, buffer, ov, fetched, ovOut, cell>>

walkVars == <<wt, wfail, wstack, wvisited, wreads, wret>>

recordVars == <<rIn, rec, rOut>>

schemaVars == <<sIn, sch, sOut, oOut>>

vars == <<pagerVars, openVars, varintVars, spillVars, cellVars, walkVars, recordVars,
          schemaVars>>

----------------------------------------------------------------------------
(* Bounds of the model *)

\* longest byte source of the pager specifications
MaxSrcLen == 7
\* largest Pager.size of the pager specifications
MaxPagerSize == 3
\* largest Pager.pages of the pager specifications
MaxPagerPages == 2
\* the sources of OpenSpec are up to this many 512-byte blocks long
MaxFileBlocks == 3
\* the inputs of VarintSpec start with up to this many bytes that have the high bit set
MaxContinuation == 9
\* SpillSpec passes every payload size from -1 to this one to computeBufferSize
MaxPayload == 2100
\* the files of SpillSpec reserve 0 .. MaxReservedTail bytes, or 32, at the end of a page
MaxReservedTail == 4
\* the database files of CellSpec hold this many overflow pages
MaxChain == 3
MaxCells == 2
MaxTreePages == 4
MaxDepth == 6
MaxText == 3
\* ValueAt is called up to this many times on one record
MaxCalls == 2
\* the raw record headers of RecordSpec are followed by up to this many bytes
MaxHeaderBytes == 3
\* the walk of the schema table meets up to this many cells
MaxRows == 2

----------------------------------------------------------------------------
(* Helpers *)

Min2(a, b) == IF a < b THEN a ELSE b

Max2(a, b) == IF a > b THEN a ELSE b

\* Go's integer division truncates toward zero; the divisor is not zero here
GoDiv(a, b) ==
    IF (a >= 0) = (b > 0)
    THEN (IF a >= 0 THEN a ELSE -a) \div (IF b > 0 THEN b ELSE -b)
    ELSE -((IF a >= 0 THEN a ELSE -a) \div (IF b > 0 THEN b ELSE -b))

\* Go's remainder has the sign of the dividend
GoMod(a, b) == a - b * GoDiv(a, b)

----------------------------------------------------------------------------
(* page.go: the byte source behind the pager                               *)

NoError == "nil"

\* the source of the pager specifications: byte k of the source is k mod 256,
\* so that every offset of a short source holds a different byte
PatternSource(n) == [k \in 1..n |-> (k - 1) % 256]

\* io.Seeker.Seek(offset, io.SeekStart) on the source: the new position and the error.
\* bytes.Reader and os.File refuse a negative position; errStream fails every seek.
SeekStart(mode, pos, offset) ==
    IF mode = "seekfail" THEN [pos |-> pos, n |-> 0, err |-> "seek failed"]
    ELSE IF offset < 0 THEN [pos |-> pos, n |-> 0, err |-> "negative position"]
    ELSE [pos |-> offset, n |-> offset, err |-> NoError]

\* io.Seeker.Seek(0, io.SeekCurrent): reports the current position
SeekCurrent(mode, pos) ==
    IF mode = "seekfail" THEN [pos |-> pos, n |-> 0, err |-> "seek failed"]
    ELSE [pos |-> pos, n |-> pos, err |-> NoError]

\* io.ReadFull(file, buf) with len(buf) = n: the bytes read, the new position, the error
ReadFull(mode, bytes, pos, n) ==
    IF n = 0 THEN [pos |-> pos, data |-> <<>>, err |-> NoError]
    ELSE IF mode = "readfail" THEN [pos |-> pos, data |-> <<>>, err |-> "read failed"]
    ELSE IF pos >= Len(bytes) THEN [pos |-> pos, data |-> <<>>, err |-> "EOF"]
    ELSE IF Len(bytes) - pos < n
         THEN [pos |-> Len(bytes), data |-> SubSeq(bytes, pos + 1, Len(bytes)),
               err |-> "unexpected EOF"]
    ELSE [pos |-> pos + n, data |-> SubSeq(bytes, pos + 1, pos + n), err |-> NoError]

----------------------------------------------------------------------------
(* utils.go: Varint                                                        *)
(* A uint64 is a sequence of 64 bits, most significant first; int64(v) has *)
(* the same bits, read as two's complement.                                *)

Zeros(k) == [i \in 1..k |-> 0]

\* the k low bits of n, most significant first (k <= 8)
Bits(n, k) == [i \in 1..k |-> (n \div (2 ^ (k - i))) % 2]

\* uint64(b) for a byte b
Uint64OfByte(b) == Zeros(56) \o Bits(b, 8)

\* v << k on uint64
Shl64(v, k) == SubSeq(v, k + 1, 64) \o Zeros(k)

\* v | w on uint64
Or64(v, w) == [i \in 1..64 |-> IF v[i] = 1 \/ w[i] = 1 THEN 1 ELSE 0]

\* the value of an int64 whose bits are v, when it lies in -2^30 .. 2^30 - 1
RECURSIVE BitsValue(_, _)
BitsValue(v, k) == IF k = 0 THEN 0 ELSE 2 * BitsValue(v, k - 1) + v[k]

Int64Small(v) == \A i \in 1..34 : v[i] = v[1]

Int64Value(v) ==
    IF v[1] = 0 THEN BitsValue(SubSeq(v, 35, 64), 30)
    ELSE BitsValue(SubSeq(v, 35, 64), 30) - 2 ^ 30

\* a loop step that is also used for the ninth byte
MutVarintLast(val, b) == Or64(Shl64(val, 7), Uint64OfByte(b % 128))

\* `val = (val << 7) | uint64(b&0x7f)`
VarintStep(val, b) == Or64(Shl64(val, 7), Uint64OfByte(b % 128))

\* `(val << 8) | uint64(b)`
VarintLast(val, b) == Or64(Shl64(val, 8), Uint64OfByte(b))

VarintError(e, pos) == [err |-> e, val |-> Zeros(64), pos |-> pos]

\* the loop of Varint over a reader holding `bytes` with its cursor at pos:
\* i is the loop counter, val the value gathered so far
RECURSIVE VarintLoop(_, _, _, _)
VarintLoop(bytes, pos, i, val) ==
    IF pos >= Len(bytes) THEN VarintError("EOF", pos)
    ELSE IF i < 8
    THEN LET b == bytes[pos + 1]
             v == VarintStep(val, b)
         IN IF b < 128
            THEN [err |-> NoError, val |-> v, pos |-> pos + 1]
            ELSE VarintLoop(bytes, pos + 1, i + 1, v)
    ELSE [err |-> NoError, val |-> VarintLast(val, bytes[pos + 1]), pos |-> pos + 1]

\* Varint(r): the int64 it returns, its error, and the cursor of r afterwards
Varint(bytes, pos) == VarintLoop(bytes, pos, 0, Zeros(64))

NoVarint == [called |-> FALSE]

DecodeVarint ==
    /\ ~vOut.called
    /\ vOut' = [called |-> TRUE, r |-> Varint(vIn, 0)]
    /\ UNCHANGED vIn

\* bytes with the high bit set, bytes without, and what may follow the last
ContinuationBytes == {136, 255}

VarintTails == {<<>>, <<3>>, <<127>>, <<0, 255>>, <<128>>}

VarintInputs ==
    {c \o t : c \in UNION {[1..n -> ContinuationBytes] : n \in 0..MaxContinuation},
              t \in VarintTails}

VarintIdle ==
    /\ vIn = <<>>
    /\ vOut = NoVarint

VarintInit ==
    /\ vIn \in VarintInputs
    /\ vOut = NoVarint

----------------------------------------------------------------------------
(* Open and Header.Valid                                                   *)

\* const Magic
Magic == "SQLite format 3\\x00"

\* the size of the Header struct that binary.Read fills
HeaderSize == 100

\* the lower limit of the usable page size in Header.Valid
MinUsable == 480

\* a uint16 value
Uint16(x) == x % 65536

\* `usable := h.PageSize - uint16(h.PageReserved)`: computed on uint16
UsableSize(h) == Uint16(h.PageSize - h.PageReserved)

\* Header.Valid: the error it returns
Valid(h) ==
    IF h.Magic # Magic THEN "invalid header"
    ELSE IF h.ReadVersion > 2 THEN "file not readable by current version of library"
    ELSE IF UsableSize(h) < MinUsable
         THEN "invalid file: usable page size is less than allowed limit"
    ELSE IF h.MaxEmbeddedFrac # 64 \/ h.MinEmbeddedFrac # 32 \/ h.LeafFrac # 32
         THEN "invalid payload fractions"
    ELSE NoError

\* a page count that drops the last, partial page
MutPageCount(size, pageSize) == GoDiv(size, pageSize)

\* `(size + int64(header.PageSize) - 1) / int64(header.PageSize)`, pageSize # 0.
\* The conversion to int32 that follows keeps every value the model reaches.
PageCount(size, pageSize) == GoDiv(size + pageSize - 1, pageSize)

\* `header.Size == 0 || (header.ChangeCounter != header.VersionValid)`
SizeIsComputed(h) == h.Size = 0 \/ h.ChangeCounter # h.VersionValid

NotOpened == [kind |-> "none"]

OpenError(e) == [kind |-> "error", err |-> e]

\* a run-time panic of the Go program: Open returns nothing
OpenPanic(e) == [kind |-> "panic", err |-> e]

\* &File{Header: header, Pager: &Pager{size: int(header.PageSize), pages: int(header.Size)}}
OpenFile(h) == [kind |-> "file", err |-> NoError, Header |-> h,
                Pager |-> [size |-> h.PageSize, pages |-> h.Size]]

\* File.NumPages
NumPages(f) == f.Header.Size

\* File.PageSize
PageSize(f) == f.Header.PageSize

\* Open(f) on a source of n bytes whose first 100 bytes decode to h
OpenResult(h, n) ==
    IF n < HeaderSize
    THEN OpenError(IF n = 0 THEN "EOF" ELSE "unexpected EOF")
    ELSE IF SizeIsComputed(h) /\ h.PageSize = 0
    THEN OpenPanic("integer divide by zero")
    ELSE LET header == IF SizeIsComputed(h)
                       THEN [h EXCEPT !.Size = PageCount(n, h.PageSize)]
                       ELSE h
         IN IF Valid(header) # NoError
            THEN OpenError(Valid(header))
            ELSE OpenFile(header)

Open ==
    /\ opened.kind = "none"
    /\ opened' = OpenResult(hdr, fileLen)
    /\ UNCHANGED <<hdr, fileLen>>

\* the lengths of the sources: empty, shorter than a header, a bare header, and
\* around every multiple of 512 up to MaxFileBlocks blocks
FileLens == {0, 50, HeaderSize} \cup
            {k * 512 + d : k \in 1..MaxFileBlocks, d \in {-1, 0, 1}}

Headers ==
    [Magic : {Magic, "not a database\\n\\n"},
     PageSize : {0, 1, 256, 512, 1024, 32768},
     ReadVersion : {1, 3},
     PageReserved : {0, 1, 2, 32, 255},
     MaxEmbeddedFrac : {64, 32},
     MinEmbeddedFrac : {32},
     LeafFrac : {32},
     ChangeCounter : {7, 8},
     Size : {0, 1, 5},
     VersionValid : {7}]

OpenIdle ==
    /\ hdr = [Magic |-> Magic, PageSize |-> 512, ReadVersion |-> 1, PageReserved |-> 0,
              MaxEmbeddedFrac |-> 64, MinEmbeddedFrac |-> 32, LeafFrac |-> 32,
              ChangeCounter |-> 0, Size |-> 0, VersionValid |-> 0]
    /\ fileLen = 0
    /\ opened = NotOpened

OpenInit ==
    /\ hdr \in Headers
    /\ fileLen \in FileLens
    /\ opened = NotOpened

----------------------------------------------------------------------------
(* btree.go: TreeNode.computeBufferSize                                    *)

\* a minimum local payload computed with the maximum embedded fraction
MutMinLocal(U) == GoDiv((U - 12) * 64, 255) - 23

\* `M := ((U - 12) * 32 / 255) - 23`
MinLocal(U) == GoDiv((U - 12) * 32, 255) - 23

\* a largest local payload that is one byte less
MutMaxLocal(U) == U - 36

\* `X := U - 35`
MaxLocal(U) == U - 35

\* computeBufferSize(P) on a node of file f: U is computed on uint16, as in Header.Valid
ComputeBufferSize(f, P) ==
    LET U == Uint16(f.Header.PageSize - f.Header.PageReserved)
        X == MaxLocal(U)
    IN IF P > X
       THEN LET M == MinLocal(U)
                K == M + GoMod(P - M, U - 4)
                local == IF K > X THEN M ELSE K
            IN [total |-> P, local |-> local, overflow |-> P - local]
       ELSE [total |-> P, local |-> P, overflow |-> 0]

NoSizes == [called |-> FALSE]

ComputeSizes ==
    /\ opened.kind = "file"
    /\ ~spOut.called
    /\ spOut' = [called |-> TRUE, r |-> ComputeBufferSize(opened, spP)]
    /\ UNCHANGED spP

\* headers with small and large usable sizes, and one (page size 16, reserved 32)
\* whose usable size wraps around to 65520; Open rejects page size 16 otherwise
SpillHeaders ==
    {[Magic |-> Magic, PageSize |-> ps, ReadVersion |-> 1, PageReserved |-> rt,
      MaxEmbeddedFrac |-> 64, MinEmbeddedFrac |-> 32, LeafFrac |-> 32,
      ChangeCounter |-> 7, Size |-> 4, VersionValid |-> 7] :
        ps \in {16, 512, 1024, 32768}, rt \in (0..MaxReservedTail) \cup {32}}

\* payload sizes: every one up to MaxPayload, and those around the largest local
\* payload and one overflow page more of the largest page size
SpillPayloads ==
    (-1..MaxPayload) \cup {32768 - 35 + d : d \in -1..2} \cup {65536 + d : d \in -60..0}

SpillIdle ==
    /\ spP = 0
    /\ spOut = NoSizes

SpillInit ==
    /\ hdr \in SpillHeaders
    /\ fileLen = hdr.Size * hdr.PageSize
    /\ opened = OpenResult(hdr, fileLen)
    /\ spP \in SpillPayloads
    /\ spOut = NoSizes

----------------------------------------------------------------------------
(* page.go: Pager.ReadPage                                                 *)

NoReturn == [returned |-> FALSE, err |-> NoError, hasPage |-> FALSE,
             ID |-> 0, s |-> <<>>, i |-> 0]

ErrReturn(e) == [returned |-> TRUE, err |-> e, hasPage |-> FALSE,
                 ID |-> 0, s |-> <<>>, i |-> 0]

\* &Page{s: buf, i: 0, ID: i}
PageReturn(id, buf) == [returned |-> TRUE, err |-> NoError, hasPage |-> TRUE,
                        ID |-> id, s |-> buf, i |-> 0]

\* Page.Len()
PageLen(p) == IF p.i >= Len(p.s) THEN 0 ELSE Len(p.s) - p.i

\* the guard of ReadPage: `if i > pager.pages`
OutOfRange(i, pages) == i > pages

\* a page offset that takes page ids as 0-based
MutPageOffset(i, size) == i * size

\* `var pageOffset = int64((i - 1) * pager.size)`
PageOffset(i, size) == (i - 1) * size

\* ReadPage, up to its bounds check
ReadPageEnter(c, i) ==
    /\ pc[c] = "idle"
    /\ arg' = [arg EXCEPT ![c] = i]
    /\ entryPos' = [entryPos EXCEPT ![c] = srcPos]
    /\ ops' = [ops EXCEPT ![c] = 0]
    /\ savedPos' = [savedPos EXCEPT ![c] = 0]
    /\ IF OutOfRange(i, pager.pages)
       THEN /\ ret' = [ret EXCEPT ![c] = ErrReturn("page index out of range")]
            /\ pc' = [pc EXCEPT ![c] = "done"]
       ELSE /\ ret' = [ret EXCEPT ![c] = NoReturn]
            /\ pc' = [pc EXCEPT ![c] = "savepos"]
    /\ UNCHANGED <<src, srcPos, srcMode, pager>>

\* `pos, _ := pager.file.Seek(0, io.SeekCurrent)`: the error is dropped
ReadPageSavePos(c) ==
    /\ pc[c] = "savepos"
    /\ LET r == SeekCurrent(srcMode, srcPos) IN
         /\ savedPos' = [savedPos EXCEPT ![c] = r.n]
         /\ srcPos' = r.pos
    /\ ops' = [ops EXCEPT ![c] = @ + 1]
    /\ pc' = [pc EXCEPT ![c] = "seek"]
    /\ UNCHANGED <<src, srcMode, pager, arg, entryPos, ret>>

\* `pager.file.Seek(pageOffset, io.SeekStart)`
ReadPageSeek(c) ==
    /\ pc[c] = "seek"
    /\ LET r == SeekStart(srcMode, srcPos, PageOffset(arg[c], pager.size)) IN
         /\ srcPos' = r.pos
         /\ IF r.err # NoError
            THEN /\ ret' = [ret EXCEPT ![c] = ErrReturn(r.err)]
                 /\ pc' = [pc EXCEPT ![c] = "restore"]
            ELSE /\ ret' = ret
                 /\ pc' = [pc EXCEPT ![c] = "read"]
    /\ ops' = [ops EXCEPT ![c] = @ + 1]
    /\ UNCHANGED <<src, srcMode, pager, arg, savedPos, entryPos>>

\* `io.ReadFull(pager.file, buf)` and the return of the page
ReadPageRead(c) ==
    /\ pc[c] = "read"
    /\ LET r == ReadFull(srcMode, src, srcPos, pager.size) IN
         /\ srcPos' = r.pos
         /\ ret' = [ret EXCEPT ![c] = IF r.err # NoError THEN ErrReturn(r.err)
                                      ELSE PageReturn(arg[c], r.data)]
    /\ ops' = [ops EXCEPT ![c] = @ + 1]
    /\ pc' = [pc EXCEPT ![c] = "restore"]
    /\ UNCHANGED <<src, srcMode, pager, arg, savedPos, entryPos>>

\* a return that leaves the source where the call put it
MutReadPageRestore(c) ==
    /\ pc[c] = "restore"
    /\ ops' = [ops EXCEPT ![c] = @ + 1]
    /\ pc' = [pc EXCEPT ![c] = "done"]
    /\ UNCHANGED <<src, srcPos, srcMode, pager, arg, savedPos, entryPos, ret>>

\* `defer pager.file.Seek(pos, io.SeekStart)`: runs on every return after the bounds check
ReadPageRestore(c) ==
    /\ pc[c] = "restore"
    /\ srcPos' = SeekStart(srcMode, srcPos, savedPos[c]).pos
    /\ ops' = [ops EXCEPT ![c] = @ + 1]
    /\ pc' = [pc EXCEPT ![c] = "done"]
    /\ UNCHANGED <<src, srcMode, pager, arg, savedPos, entryPos, ret>>

\* the caller takes the result; the pager is ready for the caller's next call
ReadPageReturn(c) ==
    /\ pc[c] = "done"
    /\ pc' = [pc EXCEPT ![c] = "idle"]
    /\ UNCHANGED <<src, srcPos, srcMode, pager, arg, savedPos, entryPos, ops, ret>>

nonPagerVars == <<openVars, varintVars, spillVars, cellVars, walkVars, recordVars,
                  schemaVars>>

\* the page ids a caller passes: negative, zero, in range, past the end
PageIds == -1..(MaxPagerPages + 1)

PagerInitWith(callers, modes) ==
    /\ \E n \in 0..MaxSrcLen : src = PatternSource(n)
    /\ srcPos \in 0..Len(src)
    /\ srcMode \in modes
    /\ \E sz \in 1..MaxPagerSize, np \in 0..MaxPagerPages : pager = [size |-> sz, pages |-> np]
    /\ pc = [c \in callers |-> "idle"]
    /\ arg = [c \in callers |-> 0]
    /\ savedPos = [c \in callers |-> 0]
    /\ entryPos = [c \in callers |-> 0]
    /\ ops = [c \in callers |-> 0]
    /\ ret = [c \in callers |-> NoReturn]

----------------------------------------------------------------------------
(* page.go: Pager.ReadPage as one call, and the cursor of a Page           *)

\* ReadPage(i) run from its first to its last statement without interruption:
\* what it returns and where it leaves the seek position of the source
ReadPageCall(mode, bytes, pos, pg, i) ==
    IF OutOfRange(i, pg.pages)
    THEN [ret |-> ErrReturn("page index out of range"), pos |-> pos]
    ELSE LET saved == SeekCurrent(mode, pos)
             sk == SeekStart(mode, saved.pos, PageOffset(i, pg.size))
             rd == ReadFull(mode, bytes, sk.pos, pg.size)
         IN IF sk.err # NoError
            THEN [ret |-> ErrReturn(sk.err), pos |-> SeekStart(mode, sk.pos, saved.n).pos]
            ELSE [ret |-> IF rd.err # NoError THEN ErrReturn(rd.err)
                          ELSE PageReturn(i, rd.data),
                  pos |-> SeekStart(mode, rd.pos, saved.n).pos]

\* a *Page as the operators below use it
PageOf(r) == [ID |-> r.ID, s |-> r.s, i |-> r.i]

NilPage == [ID |-> 0, s |-> <<>>, i |-> 0]

\* Page.Seek(offset, io.SeekStart)
PageSeekStart(p, offset) ==
    IF offset < 0 THEN [err |-> "Page.Seek: negative position", page |-> p]
    ELSE [err |-> NoError, page |-> [p EXCEPT !.i = offset]]

\* Page.Read(b) with len(b) = n
PageRead(p, n) ==
    IF p.i >= Len(p.s) THEN [n |-> 0, err |-> "EOF", data |-> <<>>, page |-> p]
    ELSE LET m == Min2(n, Len(p.s) - p.i)
         IN [n |-> m, err |-> NoError, data |-> SubSeq(p.s, p.i + 1, p.i + m),
             page |-> [p EXCEPT !.i = p.i + m]]

\* io.ReadFull(page, b) with len(b) = n, as binary.Read uses it
PageReadFull(p, n) ==
    IF n = 0 THEN [err |-> NoError, data |-> <<>>, page |-> p]
    ELSE IF p.i >= Len(p.s) THEN [err |-> "EOF", data |-> <<>>, page |-> p]
    ELSE IF Len(p.s) - p.i < n
         THEN [err |-> "unexpected EOF", data |-> SubSeq(p.s, p.i + 1, Len(p.s)),
               page |-> [p EXCEPT !.i = Len(p.s)]]
    ELSE [err |-> NoError, data |-> SubSeq(p.s, p.i + 1, p.i + n),
          page |-> [p EXCEPT !.i = p.i + n]]

\* io.CopyN(&buffer, page, n): copies min(n, what is left) bytes, io.EOF when fewer
\* than n were copied; a negative n copies nothing and reports no error
PageCopyN(p, n) ==
    LET avail == IF p.i >= Len(p.s) THEN 0 ELSE Len(p.s) - p.i
        m == IF n <= 0 THEN 0 ELSE Min2(n, avail)
    IN [err |-> IF m < n THEN "EOF" ELSE NoError,
        data |-> SubSeq(p.s, p.i + 1, p.i + m),
        page |-> [p EXCEPT !.i = p.i + m]]

\* big-endian decoding by encoding/binary
BigEndianUint16(b) == b[1] * 256 + b[2]

BigEndianInt16(b) == (IF b[1] >= 128 THEN b[1] - 256 ELSE b[1]) * 256 + b[2]

BigEndianInt32(b) ==
    (IF b[1] >= 128 THEN b[1] - 256 ELSE b[1]) * 16777216
        + b[2] * 65536 + b[3] * 256 + b[4]

\* Varint(page): the value as a number, the error and the page with its cursor moved.
\* The database files of the model hold no varint outside -2^30 .. 2^30 - 1.
PageVarint(p) ==
    LET r == Varint(p.s, p.i)
    IN [err |-> r.err, val |-> Int64Value(r.val), page |-> [p EXCEPT !.i = r.pos]]

----------------------------------------------------------------------------
(* btree.go: newNode                                                       *)

NodeIndexInt == 2
NodeTableInt == 5
NodeIndexLeaf == 10
NodeTableLeaf == 13

NoNode == [state |-> "none"]

NodeError(e) == [state |-> "error", err |-> e]

\* `make([]int16, node.header.NumCells)` with a negative length
NodePanic(e) == [state |-> "panic", err |-> e]

\* the cell pointer array: n int16 values read from the page, or the error of the read
RECURSIVE ReadCellPointers(_, _, _)
ReadCellPointers(p, n, acc) ==
    IF n = 0 THEN [err |-> NoError, cells |-> acc, page |-> p]
    ELSE LET r == PageReadFull(p, 2)
         IN IF r.err # NoError THEN [err |-> r.err, cells |-> acc, page |-> r.page]
            ELSE ReadCellPointers(r.page, n - 1, Append(acc, BigEndianInt16(r.data)))

\* newNode(file, page)
NewNode(page) ==
    LET start == IF page.ID = 1 THEN PageSeekStart(page, 100).page ELSE page
        h == PageReadFull(start, 8)
        kind == h.data[1]
        numCells == BigEndianInt16(SubSeq(h.data, 4, 5))
        interior == kind = NodeTableInt \/ kind = NodeIndexInt
        rt == IF interior THEN PageReadFull(h.page, 4)
              ELSE [err |-> NoError, data |-> <<0, 0, 0, 0>>, page |-> h.page]
        ptrs == ReadCellPointers(rt.page, numCells, <<>>)
    IN IF h.err # NoError THEN NodeError(h.err)
       ELSE IF rt.err # NoError THEN NodeError(rt.err)
       ELSE IF numCells < 0 THEN NodePanic("makeslice: len out of range")
       ELSE IF ptrs.err # NoError THEN NodeError(ptrs.err)
       ELSE [state |-> "node", err |-> NoError,
             header |-> [Kind |-> kind,
                         FreeBlockOffset |-> BigEndianInt16(SubSeq(h.data, 2, 3)),
                         NumCells |-> numCells,
                         CellsOffset |-> BigEndianInt16(SubSeq(h.data, 6, 7)),
                         NumFreeBytes |-> IF h.data[8] >= 128 THEN h.data[8] - 256
                                          ELSE h.data[8]],
             page |-> ptrs.page,
             cells |-> ptrs.cells,
             right |-> IF interior THEN BigEndianInt32(rt.data) ELSE 0]

----------------------------------------------------------------------------
(* object.go: the overflow reader                                          *)

\* newOverflowReader(pager, page, usable, size)
NewOverflowReader(page, usable, size) ==
    [next |-> page, hasPage |-> FALSE, page |-> NilPage,
     usable |-> usable, size |-> size, left |-> size]

NoReader == NewOverflowReader(0, 0, 0)

\* the block under the label `fetch`: when there is no page or the page is used up,
\* read page o.next and its 4-byte next-page id. ids lists the page asked for.
OverflowFetch(o, mode, bytes, pos, pg) ==
    IF ~o.hasPage \/ PageLen(o.page) = 0
    THEN LET rp == ReadPageCall(mode, bytes, pos, pg, o.next)
             nx == PageReadFull(PageOf(rp.ret), 4)
         IN IF rp.ret.err # NoError
            THEN [err |-> rp.ret.err, pos |-> rp.pos, ids |-> <<o.next>>,
                  o |-> [o EXCEPT !.hasPage = FALSE, !.page = NilPage]]
            ELSE IF nx.err # NoError
            THEN [err |-> nx.err, pos |-> rp.pos, ids |-> <<o.next>>,
                  o |-> [o EXCEPT !.hasPage = TRUE, !.page = nx.page]]
            ELSE [err |-> NoError, pos |-> rp.pos, ids |-> <<o.next>>,
                  o |-> [o EXCEPT !.hasPage = TRUE, !.page = nx.page,
                                  !.next = BigEndianInt32(nx.data)]]
    ELSE [err |-> NoError, pos |-> pos, ids |-> <<>>, o |-> o]

\* `min(len(buf), o.left, o.usable-4)`
ReadLimit(room, left, usable) == Min2(Min2(room, left), usable - 4)

----------------------------------------------------------------------------
(* btree.go: TreeNode.LoadCell                                             *)

\* bytes.MinRead: the least room bytes.Buffer.ReadFrom offers to a Read call
MinRead == 512

\* the room io.Copy offers to one Read call of the overflow reader
BufferRooms == {MinRead, 2 * MinRead}

NoCell == [state |-> "none"]

CellError(e) == [state |-> "error", err |-> e]

CellPanic(e) == [state |-> "panic", err |-> e]

\* &Cell{LeftChild: left, Size: size, Rowid: rowid, s: s, i: 0}
CellReturn(left, size, rowid, s) ==
    [state |-> "cell", err |-> NoError, LeftChild |-> left, Size |-> size,
     Rowid |-> rowid, s |-> s, i |-> 0]

IdleFrame == [pc |-> "idle"]

\* a length check that only catches a short payload
MutLengthMismatch(n, total) == n < total

\* `buffer.Len() != total`
LengthMismatch(n, total) == n # total

\* LoadCell from the length check to its return
LoadCellFinish(frame, buf) ==
    IF LengthMismatch(Len(buf), frame.total)
    THEN CellError("read payload bytes of another length")
    ELSE CellReturn(frame.left, frame.total, frame.rowid, buf)

PayloadKinds == {NodeTableLeaf, NodeIndexInt, NodeIndexLeaf}

\* LoadCell(pos) up to the point where the overflow reader is handed to io.Copy:
\* the cell or the error it returns before that, or the frame it goes on with
LoadCellHead(f, nd, pos) ==
    LET k == nd.header.Kind
        sk == PageSeekStart(nd.page, nd.cells[pos + 1])
        same(pg) == [err |-> NoError, val |-> 0, data |-> <<0, 0, 0, 0>>, page |-> pg]
        lf == IF k \in {NodeTableInt, NodeIndexInt} THEN PageReadFull(sk.page, 4)
              ELSE same(sk.page)
        sz == IF k \in PayloadKinds THEN PageVarint(lf.page) ELSE same(lf.page)
        rw == IF k \in {NodeTableInt, NodeTableLeaf} THEN PageVarint(sz.page)
              ELSE same(sz.page)
        left == BigEndianInt32(lf.data)
        sizes == ComputeBufferSize(f, sz.val)
        cp == PageCopyN(rw.page, sizes.local)
        op == PageReadFull(cp.page, 4)
        usable == Uint16(f.Header.PageSize - f.Header.PageReserved)
        frame == [pc |-> "copy", room |-> 0, pos |-> pos, left |-> left, rowid |-> rw.val,
                  total |-> sizes.total, localsz |-> sizes.local,
                  overflowsz |-> sizes.overflow, overflowPage |-> 0]
    IN IF sk.err # NoError THEN [cell |-> CellError(sk.err), page |-> sk.page]
       ELSE IF k \notin PayloadKinds \cup {NodeTableInt}
       THEN [cell |-> CellPanic("unknow node type"), page |-> sk.page]
       ELSE IF lf.err # NoError THEN [cell |-> CellError(lf.err), page |-> lf.page]
       ELSE IF sz.err # NoError
       THEN [cell |-> CellError("error decoding size"), page |-> sz.page]
       ELSE IF rw.err # NoError
       THEN [cell |-> CellError("error decoding rowid"), page |-> rw.page]
       ELSE IF k = NodeTableInt
       THEN [cell |-> CellReturn(left, 0, rw.val, <<>>), page |-> rw.page]
       ELSE IF cp.err # NoError THEN [cell |-> CellError(cp.err), page |-> cp.page]
       ELSE IF sizes.overflow > 0
       THEN IF op.err # NoError THEN [cell |-> CellError(op.err), page |-> op.page]
            ELSE [cell |-> NoCell, page |-> op.page, buffer |-> cp.data,
                  frame |-> [frame EXCEPT !.overflowPage = BigEndianInt32(op.data)],
                  reader |-> NewOverflowReader(BigEndianInt32(op.data), usable,
                                               sizes.overflow)]
       ELSE [cell |-> LoadCellFinish(frame, cp.data), page |-> cp.page]

\* Tree.Walk, first half: read the root page and parse it
ReadNode ==
    /\ opened.kind = "file"
    /\ node.state = "none"
    /\ LET rp == ReadPageCall(srcMode, src, srcPos, pager, fx.root)
       IN /\ srcPos' = rp.pos
          /\ node' = IF rp.ret.err # NoError THEN NodeError(rp.ret.err)
                     ELSE NewNode(PageOf(rp.ret))
    /\ UNCHANGED <<fx, lc, buffer, ov, fetched, ovOut, cell>>

\* LoadCell(pos) up to its return or to the first Read of the overflow reader
LoadCellBegin(pos) ==
    /\ node.state = "node"
    /\ lc.pc = "idle"
    /\ cell.state = "none"
    /\ pos \in 0..(Len(node.cells) - 1)
    /\ LET h == LoadCellHead(opened, node, pos)
       IN /\ node' = [node EXCEPT !.page = h.page]
          /\ cell' = h.cell
          /\ IF h.cell.state = "none"
             THEN /\ lc' = h.frame
                  /\ buffer' = h.buffer
                  /\ ov' = h.reader
             ELSE /\ lc' = [pc |-> "done"]
                  /\ UNCHANGED <<buffer, ov>>
    /\ UNCHANGED <<fx, fetched, ovOut, srcPos>>

\* LoadCell once io.Copy has ended with the error e of the overflow reader
\* (io.EOF ends the copy without an error)
LoadCellAfterCopy(e, buf) ==
    /\ cell' = IF e = "EOF" THEN LoadCellFinish(lc, buf) ELSE CellError(e)
    /\ lc' = [lc EXCEPT !.pc = "done"]

\* an end of the chain that is always taken for the end of the stream
MutEndOfChain(left) == "EOF"

\* what Read returns when there is no further page: `if o.left != 0 { return 0,
\* io.ErrUnexpectedEOF }; return 0, io.EOF`
EndOfChain(left) == IF left # 0 THEN "unexpected EOF" ELSE "EOF"

\* io.Copy (bytes.Buffer.ReadFrom) calls overflow.Read(buf) with len(buf) = room:
\* the test at the head of Read
OverflowReadEnter ==
    /\ lc.pc = "copy"
    /\ IF (~ov.hasPage \/ PageLen(ov.page) = 0 \/ ov.left = 0) /\ ov.next = 0
       THEN LoadCellAfterCopy(EndOfChain(ov.left), buffer)
       ELSE /\ \E room \in BufferRooms : lc' = [lc EXCEPT !.pc = "fetch", !.room = room]
            /\ UNCHANGED cell
    /\ UNCHANGED <<fx, node, buffer, ov, fetched, ovOut, srcPos>>

\* overflow.Read at the label `fetch`
OverflowReadFetch ==
    /\ lc.pc = "fetch"
    /\ \E f \in {OverflowFetch(ov, srcMode, src, srcPos, pager)} :
        /\ ov' = f.o
        /\ srcPos' = f.pos
        /\ fetched' = fetched \o f.ids
        /\ IF f.err # NoError
           THEN LoadCellAfterCopy(f.err, buffer)
           ELSE lc' = [lc EXCEPT !.pc = "take"] /\ UNCHANGED cell
    /\ UNCHANGED <<fx, node, buffer, ovOut>>

\* overflow.Read from the slicing of buf to its return; bytes.Buffer.ReadFrom
\* appends the n bytes read and, when there is no error, calls Read again
OverflowReadTake ==
    /\ lc.pc = "take"
    /\ \E rd \in {PageRead(ov.page, Max2(0, ReadLimit(lc.room, ov.left, ov.usable)))} :
        IF ReadLimit(lc.room, ov.left, ov.usable) < 0
        THEN /\ cell' = CellPanic("slice bounds out of range")
             /\ lc' = [lc EXCEPT !.pc = "done"]
             /\ UNCHANGED <<buffer, ov, ovOut>>
        ELSE /\ buffer' = buffer \o rd.data
             /\ ovOut' = IF rd.n > 0
                         THEN Append(ovOut, [id |-> ov.page.ID, at |-> ov.page.i, n |-> rd.n])
                         ELSE ovOut
             /\ IF rd.err = NoError
                THEN /\ ov' = [ov EXCEPT !.page = rd.page, !.left = @ - rd.n]
                     /\ lc' = [lc EXCEPT !.pc = "copy"]
                     /\ UNCHANGED cell
                ELSE /\ ov' = [ov EXCEPT !.page = rd.page]
                     /\ IF rd.err = "EOF" /\ ov.next = 0 /\ ov.left - rd.n = 0
                        THEN /\ lc' = [lc EXCEPT !.pc = "fetch", !.room = @ - rd.n]
                             /\ UNCHANGED cell
                        ELSE LoadCellAfterCopy(IF rd.err = "EOF" /\ ov.next = 0
                                               THEN "unexpected EOF" ELSE rd.err,
                                               buffer \o rd.data)
    /\ UNCHANGED <<fx, node, fetched, srcPos>>

CellIdle ==
    /\ fx = [root |-> 0]
    /\ node = NoNode
    /\ lc = IdleFrame
    /\ buffer = <<>>
    /\ ov = NoReader
    /\ fetched = <<>>
    /\ ovOut = <<>>
    /\ cell = NoCell

----------------------------------------------------------------------------
(* btree.go: Tree.Walk and Tree.walk                                       *)

\* Tree.root of the trees walked
WalkRoot == 1

WalkIdleState == [state |-> "idle", err |-> NoError]

\* a loop that starts at the second cell
MutFrame(page) == [page |-> page, i |-> 1, pc |-> "loop"]

\* a frame of Tree.walk: the node, the loop index i, and the statement to run next
Frame(page) == [page |-> page, i |-> 0, pc |-> "loop"]

\* a visitor that never returns an error
MutVisitorError(k, fail) == NoError

\* the error the k-th call of the function passed to Walk returns: Object.ForEach
\* passes a closure that returns the error of NewRecord or of the caller's visitor
VisitorError(k, fail) ==
    IF k = fail.at THEN (IF fail.by = "fn" THEN "visitor error" ELSE "record error")
    ELSE NoError

\* the cells of a node taken from the last to the first
MutCellAt(nd, i) == nd.cells[Len(nd.cells) - i]

\* the cell LoadCell(i) returns: the one the i-th cell pointer (from 0) names
CellAt(nd, i) == nd.cells[i + 1]

\* `return err` in a call of walk: the calls in progress return it one after another
Fail(e) ==
    /\ wret' = [state |-> "unwinding", err |-> e]
    /\ UNCHANGED wstack

\* a run-time panic of the program
Abort(e) ==
    /\ wret' = [state |-> "panic", err |-> e]
    /\ UNCHANGED wstack

\* ReadPage(child), newNode and the recursive call `tree.walk(child, fn)`; the frame
\* of the caller goes on at `resume` when the call returns. The recursion has no
\* limit of its own: at MaxDepth frames the goroutine stack is taken to be full.
Descend(child, resume) ==
    /\ wreads' = Append(wreads, child)
    /\ IF OutOfRange(child, MaxTreePages) THEN Fail("page index out of range")
       ELSE IF Len(wstack) >= MaxDepth THEN Abort("stack overflow")
       ELSE /\ wstack' = Append([wstack EXCEPT ![Len(wstack)].pc = resume], Frame(child))
            /\ UNCHANGED wret

\* `return nil` of the innermost call of walk
Return ==
    /\ wstack' = SubSeq(wstack, 1, Len(wstack) - 1)
    /\ wret' = IF Len(wstack) = 1 THEN [state |-> "returned", err |-> NoError] ELSE wret

\* Tree.Walk: read and parse the root, call walk
WalkBegin ==
    /\ wret.state = "idle"
    /\ wreads' = Append(wreads, WalkRoot)
    /\ IF OutOfRange(WalkRoot, MaxTreePages)
       THEN wret' = [state |-> "returned", err |-> "page index out of range"]
            /\ UNCHANGED wstack
       ELSE wret' = [state |-> "running", err |-> NoError]
            /\ wstack' = <<Frame(WalkRoot)>>
    /\ UNCHANGED <<wt, wfail, wvisited>>

\* the head of the loop `for i := 0; i < node.NumCells(); i++`, LoadCell(i) and the
\* walk of the left child of the cell
WalkLoop ==
    /\ wret.state = "running"
    /\ wstack[Len(wstack)].pc = "loop"
    /\ LET top == wstack[Len(wstack)]
           nd == wt[top.page]
       IN IF top.i < Len(nd.cells)
          THEN IF nd.kind \notin PayloadKinds \cup {NodeTableInt}
               THEN Abort("unknow node type") /\ UNCHANGED wreads
               ELSE IF CellAt(nd, top.i).left # 0
               THEN Descend(CellAt(nd, top.i).left, "visit")
               ELSE /\ wstack' = [wstack EXCEPT ![Len(wstack)].pc = "visit"]
                    /\ UNCHANGED <<wret, wreads>>
          ELSE /\ wstack' = [wstack EXCEPT ![Len(wstack)].pc = "right"]
               /\ UNCHANGED <<wret, wreads>>
    /\ UNCHANGED <<wt, wfail, wvisited>>

\* `if node.Kind() != NodeTableInt { if err = fn(cell); ... }` and `i++`
WalkVisit ==
    /\ wret.state = "running"
    /\ wstack[Len(wstack)].pc = "visit"
    /\ LET top == wstack[Len(wstack)]
           nd == wt[top.page]
           e == VisitorError(Len(wvisited) + 1, wfail)
       IN IF nd.kind # NodeTableInt
          THEN /\ wvisited' = Append(wvisited, [page |-> top.page, i |-> top.i,
                                                 key |-> CellAt(nd, top.i).key])
               /\ IF e # NoError THEN Fail(e)
                  ELSE /\ wstack' = [wstack EXCEPT ![Len(wstack)].pc = "loop",
                                                   ![Len(wstack)].i = @ + 1]
                       /\ UNCHANGED wret
          ELSE /\ wstack' = [wstack EXCEPT ![Len(wstack)].pc = "loop",
                                           ![Len(wstack)].i = @ + 1]
               /\ UNCHANGED <<wret, wvisited>>
    /\ UNCHANGED <<wt, wfail, wreads>>

\* `if node.right != 0 { ... }` after the loop
WalkRight ==
    /\ wret.state = "running"
    /\ wstack[Len(wstack)].pc = "right"
    /\ IF wt[wstack[Len(wstack)].page].right # 0
       THEN Descend(wt[wstack[Len(wstack)].page].right, "return")
       ELSE Return /\ UNCHANGED wreads
    /\ UNCHANGED <<wt, wfail, wvisited>>

\* the last statement of walk, `return nil`, after the walk of the right child
WalkReturn ==
    /\ wret.state = "running"
    /\ wstack[Len(wstack)].pc = "return"
    /\ Return
    /\ UNCHANGED <<wt, wfail, wvisited, wreads>>

\* a call of walk (or Walk itself) gets an error from the call it made and returns it
WalkUnwind ==
    /\ wret.state = "unwinding"
    /\ IF wstack = <<>>
       THEN wret' = [wret EXCEPT !.state = "returned"] /\ UNCHANGED wstack
       ELSE wstack' = SubSeq(wstack, 1, Len(wstack) - 1) /\ UNCHANGED wret
    /\ UNCHANGED <<wt, wfail, wvisited, wreads>>

----------------------------------------------------------------------------
(* The trees Tree.Walk is run on                                           *)

\* the key (the rowid of a table cell) of cell i (from 1) of page p
KeyOf(p, i) == IF p = WalkRoot THEN 10 * i + 9 ELSE 10 * (p - 1) + i

CellsOf(p, lefts) == [i \in 1..Len(lefts) |-> [left |-> lefts[i], key |-> KeyOf(p, i)]]

NoChildren(n) == [i \in 1..n |-> 0]

InteriorKind(t) == IF t = "table" THEN NodeTableInt ELSE NodeIndexInt

LeafKind(t) == IF t = "table" THEN NodeTableLeaf ELSE NodeIndexLeaf

InteriorNode(t, p, lefts, right) ==
    [kind |-> InteriorKind(t), cells |-> CellsOf(p, lefts), right |-> right]

\* LoadCell gives LeftChild 0 on a leaf, newNode gives right 0 on a node not interior
LeafNode(t, p, n) == [kind |-> LeafKind(t), cells |-> CellsOf(p, NoChildren(n)), right |-> 0]

\* a page whose kind byte is none of the four kinds of node
UnknownNode(p, n) == [kind |-> 0, cells |-> CellsOf(p, NoChildren(n)), right |-> 0]

SeqsUpTo(n, S) == UNION {[1..k -> S] : k \in 0..n}

\* the root: pointers to the pages below it, to no page, and past the end of the file
RootNodes(t) ==
    {InteriorNode(t, WalkRoot, ls, r) :
        ls \in SeqsUpTo(MaxCells, {0, 2, 3}), r \in {0, 3, 4, MaxTreePages + 1}}
        \cup {LeafNode(t, WalkRoot, n) : n \in 0..MaxCells}
        \cup {UnknownNode(WalkRoot, n) : n \in 0..1}

\* page 2: pointers down, to no page, and back to the root
SecondNodes(t) ==
    {InteriorNode(t, 2, ls, r) : ls \in SeqsUpTo(1, {0, 1, 4}), r \in {0, 4}}
        \cup {LeafNode(t, 2, n) : n \in 0..MaxCells}
        \cup {UnknownNode(2, n) : n \in 0..1}

\* page 3: a leaf, a page of unknown kind, or an interior page that is its own child
ThirdNodes(t) ==
    {LeafNode(t, 3, n) : n \in 1..MaxCells}
        \cup {InteriorNode(t, 3, <<>>, 3)}
        \cup {UnknownNode(3, n) : n \in 0..1}

VisitorFailures ==
    {[at |-> 0, by |-> "fn"], [at |-> 1, by |-> "NewRecord"]}
        \cup {[at |-> k, by |-> "fn"] : k \in 1..3}

WalkIdle ==
    /\ wt = <<>>
    /\ wfail = [at |-> 0, by |-> "fn"]
    /\ wstack = <<>>
    /\ wvisited = <<>>
    /\ wreads = <<>>
    /\ wret = WalkIdleState

\* every tree made of a root, a second and a third page and leaves for the rest
WalkInit ==
    /\ wt \in
           UNION {{[p \in 1..MaxTreePages |->
                       IF p = WalkRoot THEN a ELSE IF p = 2 THEN b ELSE IF p = 3 THEN c
                       ELSE LeafNode(t, p, n)] :
                      a \in RootNodes(t), b \in SecondNodes(t), c \in ThirdNodes(t),
                      n \in 1..MaxCells} :
                  t \in {"table", "index"}}
    /\ wfail \in VisitorFailures
    /\ wstack = <<>>
    /\ wvisited = <<>>
    /\ wreads = <<>>
    /\ wret = WalkIdleState

----------------------------------------------------------------------------
(* record.go: NewRecord and Record.ValueAt                                 *)

\* the text encodings of TextEncoding
UTF8 == 1
UTF16LE == 2
UTF16BE == 3

\* Cell.Len
CellLen(c) == IF c.i >= Len(c.s) THEN 0 ELSE Len(c.s) - c.i

\* Cell.Seek(offset, io.SeekStart); ValueAt drops its error
CellSeekStart(c, offset) == IF offset < 0 THEN c ELSE [c EXCEPT !.i = offset]

\* Cell.Read(b) with len(b) = n
CellRead(c, n) ==
    IF c.i >= Len(c.s) THEN [n |-> 0, err |-> "EOF", data |-> <<>>, cell |-> c]
    ELSE LET m == Min2(n, Len(c.s) - c.i)
         IN [n |-> m, err |-> NoError, data |-> SubSeq(c.s, c.i + 1, c.i + m),
             cell |-> [c EXCEPT !.i = c.i + m]]

\* io.ReadFull(cell, b) with len(b) = n, also as binary.Read uses it
CellReadFull(c, n) ==
    IF n = 0 THEN [err |-> NoError, data |-> <<>>, cell |-> c]
    ELSE IF c.i >= Len(c.s) THEN [err |-> "EOF", data |-> <<>>, cell |-> c]
    ELSE IF Len(c.s) - c.i < n
         THEN [err |-> "unexpected EOF", data |-> SubSeq(c.s, c.i + 1, Len(c.s)),
               cell |-> [c EXCEPT !.i = Len(c.s)]]
    ELSE [err |-> NoError, data |-> SubSeq(c.s, c.i + 1, c.i + n),
          cell |-> [c EXCEPT !.i = c.i + n]]

\* a size table that gives the 48-bit integer five bytes
MutTypeSize(v) == IF v = 5 THEN 5 ELSE IF v > 0 /\ v <= 4 THEN v ELSE 0

\* typeSize(v)
TypeSize(v) ==
    IF v > 0 /\ v <= 4 THEN v
    ELSE IF v = 5 THEN 6
    ELSE IF v = 6 \/ v = 7 THEN 8
    ELSE IF v >= 12 /\ GoMod(v, 2) = 0 THEN GoDiv(v - 12, 2)
    ELSE IF v >= 13 /\ GoMod(v, 2) = 1 THEN GoDiv(v - 13, 2)
    ELSE 0

NoRecord == [state |-> "none"]

RecordError(e, c) == [state |-> "error", err |-> e, cell |-> c]

\* the loop of NewRecord: i counts the header bytes read, body is the offset of the
\* next value
RECURSIVE RecordValues(_, _, _, _, _)
RecordValues(c, i, headerSize, body, values) ==
    IF i < headerSize
    THEN LET r == Varint(c.s, c.i)
             after == [c EXCEPT !.i = r.pos]
             v == Int64Value(r.val)
         IN IF r.err # NoError THEN [err |-> r.err, cell |-> after, values |-> values]
            ELSE RecordValues(after, i + (CellLen(c) - CellLen(after)), headerSize,
                              body + TypeSize(v),
                              Append(values, [Type |-> v, Offset |-> body]))
    ELSE [err |-> NoError, cell |-> c, values |-> values]

\* NewRecord(enc, cell)
NewRecord(enc, c) ==
    LET r == Varint(c.s, c.i)
        after == [c EXCEPT !.i = r.pos]
        v == Int64Value(r.val)
        headerSize == v - (CellLen(c) - CellLen(after))
        vs == RecordValues(after, 0, headerSize, v, <<>>)
    IN IF r.err # NoError THEN RecordError(r.err, after)
       ELSE IF vs.err # NoError THEN RecordError(vs.err, vs.cell)
       ELSE [state |-> "record", err |-> NoError, encoding |-> enc, cell |-> vs.cell,
             values |-> vs.values]

\* Record.NumValues
NumValues(r) == Len(r.values)

\* the bits of a sequence of bytes, the most significant first
BytesBits(b) == [k \in 1..(8 * Len(b)) |-> Bits(b[((k - 1) \div 8) + 1], 8)[((k - 1) % 8) + 1]]

\* int64(x) for a signed integer x of the width of `bits`
SignExtend(bits) == [k \in 1..(64 - Len(bits)) |-> bits[1]] \o bits

\* int64(x) for an unsigned integer x of the width of `bits`
ZeroExtend(bits) == Zeros(64 - Len(bits)) \o bits

\* the byte ValueAt puts in front of a 24-bit or 48-bit body
SignByte(b) == IF b >= 128 THEN 255 ELSE 0

NilValue == [kind |-> "nil"]

IntValue(bits) == [kind |-> "int64", bits |-> bits]

ValueError(e) == [state |-> "error", err |-> e, val |-> NilValue]

ValueReturn(v) == [state |-> "value", err |-> NoError, val |-> v]

\* serial type 3: `bs[0] = 0xff` when the body is negative, then
\* `int64(binary.BigEndian.Uint32(bs))`
Decode24(body) == IntValue(ZeroExtend(BytesBits(<<SignByte(body[1])>> \o body)))

\* serial type 5: `bs[0] = 0xff` when the body is negative (bs[1] stays 0), then
\* `int64(binary.BigEndian.Uint64(bs))`
Decode48(body) == IntValue(BytesBits(<<SignByte(body[1]), 0>> \o body))

\* a text value that is returned whole
MutTextOf(buf) == buf

\* `string(buf)` cut before its first NUL byte
TextOf(buf) ==
    IF \E k \in 1..Len(buf) : buf[k] = 0
    THEN SubSeq(buf, 1, (CHOOSE k \in 1..Len(buf) :
                             buf[k] = 0 /\ \A j \in 1..(k - 1) : buf[j] # 0) - 1)
    ELSE buf

\* a decoder that takes a type it does not know for NULL
MutUnknownType(t) == ValueReturn(NilValue)

\* the last statement of ValueAt
UnknownType(t) == ValueError("unknown value type")

\* the switch of ValueAt on a value of serial type t, the cell being at the offset
\* of the value
DecodeValue(r, c, t) ==
    LET width == IF t = 1 THEN 1 ELSE IF t = 2 THEN 2 ELSE IF t = 4 THEN 4 ELSE 8
        fixed == CellReadFull(c, width)
        short == CellRead(c, IF t = 3 THEN 3 ELSE 6)
        blob == CellReadFull(c, GoDiv(t - 12, 2))
        text == CellReadFull(c, GoDiv(t - 13, 2))
    IN IF t = 0 THEN ValueReturn(NilValue)
       ELSE IF t \in {1, 2, 4, 6}
       THEN IF fixed.err # NoError THEN ValueError(fixed.err)
            ELSE ValueReturn(IntValue(SignExtend(BytesBits(fixed.data))))
       ELSE IF t = 3
       THEN IF short.n # 3 THEN ValueError("failed to decode 24-bit integer value")
            ELSE ValueReturn(Decode24(short.data))
       ELSE IF t = 5
       THEN IF short.n # 6 THEN ValueError("failed to decode 48-bit integer value")
            ELSE ValueReturn(Decode48(short.data))
       ELSE IF t = 7
       THEN IF fixed.err # NoError THEN ValueError(fixed.err)
            ELSE ValueReturn([kind |-> "float64", bits |-> BytesBits(fixed.data)])
       ELSE IF t = 8 THEN ValueReturn(IntValue(Zeros(64)))
       ELSE IF t = 9 THEN ValueReturn(IntValue(Zeros(63) \o <<1>>))
       ELSE IF t >= 12 /\ GoMod(t, 2) = 0
       THEN IF blob.err # NoError THEN ValueError(blob.err)
            ELSE ValueReturn([kind |-> "bytes", bytes |-> blob.data])
       ELSE IF t >= 13 /\ GoMod(t, 2) # 0
       THEN IF text.err # NoError THEN ValueError(text.err)
            ELSE IF r.encoding = UTF8
            THEN ValueReturn([kind |-> "string", bytes |-> TextOf(text.data)])
            ELSE ValueError("UTF-16 is not supported")
       ELSE UnknownType(t)

\* Record.ValueAt(c): indexing rec.values out of its range is a run-time panic; the
\* deferred Seek puts the cursor of the cell back, so the cell is as before
ValueAt(r, c) ==
    IF c > NumValues(r) THEN ValueError("column index out of range")
    ELSE IF c < 0 \/ c >= NumValues(r)
    THEN [state |-> "panic", err |-> "index out of range", val |-> NilValue]
    ELSE DecodeValue(r, CellSeekStart(r.cell, r.values[c + 1].Offset), r.values[c + 1].Type)

\* the cursor of the cell after the switch of ValueAt on a value of serial type t: the
\* reads of DecodeValue have moved it
DecodeCursor(c, t) ==
    IF t \in {1, 2, 4, 6, 7}
    THEN CellReadFull(c, IF t = 1 THEN 1 ELSE IF t = 2 THEN 2 ELSE IF t = 4 THEN 4 ELSE 8).cell
    ELSE IF t \in {3, 5} THEN CellRead(c, IF t = 3 THEN 3 ELSE 6).cell
    ELSE IF t >= 12 /\ GoMod(t, 2) = 0 THEN CellReadFull(c, GoDiv(t - 12, 2)).cell
    ELSE IF t >= 13 /\ GoMod(t, 2) # 0 THEN CellReadFull(c, GoDiv(t - 13, 2)).cell
    ELSE c

\* a return of ValueAt that leaves the cursor where the reads put it
MutRestoreCursor(c, pos) == c

\* `defer cell.Seek(pos, io.SeekStart)`, pos being the result of
\* `cell.Seek(0, io.SeekCurrent)`
RestoreCursor(c, pos) == CellSeekStart(c, pos)

\* the cell of the record after Record.ValueAt(c)
ValueAtCell(r, c) ==
    IF c > NumValues(r) \/ c < 0 \/ c >= NumValues(r) THEN r.cell
    ELSE RestoreCursor(DecodeCursor(CellSeekStart(r.cell, r.values[c + 1].Offset),
                                    r.values[c + 1].Type),
                       r.cell.i)

\* no call of ValueAt yet
NoValue == [called |-> FALSE, n |-> 0, earlier |-> <<>>]

\* Object.ForEach: NewRecord on the cell the walk hands over
MakeRecord ==
    /\ rec.state = "none"
    /\ rec' = NewRecord(rIn.enc, [s |-> rIn.s, i |-> 0])
    /\ UNCHANGED <<rIn, rOut>>

\* the visitor asks for column c
ReadValue(c) ==
    /\ rec.state = "record"
    /\ rOut.n < MaxCalls
    /\ rOut.called => rOut.r.state # "panic"
    /\ rOut' = [called |-> TRUE, n |-> rOut.n + 1, c |-> c, r |-> ValueAt(rec, c),
                earlier |-> IF rOut.called THEN Append(rOut.earlier, rOut.c) ELSE <<>>]
    /\ rec' = [rec EXCEPT !.cell = ValueAtCell(rec, c)]
    /\ UNCHANGED rIn

----------------------------------------------------------------------------
(* The records NewRecord and ValueAt are run on                            *)

Ones(n) == [k \in 1..n |-> 255]

\* a body with only its first bit set
HighBit(n) == [k \in 1..n |-> IF k = 1 THEN 128 ELSE 0]

BodyWidth(t) == IF t = 5 THEN 6 ELSE IF t = 6 THEN 8 ELSE t

\* integers of the six widths, from the first bytes of: -1, 0 (1 at full width), the
\* least value, the greatest value
IntegerValues ==
    {[t |-> t, body |-> b] :
        t \in 1..6, b \in {Ones(8), <<0, 0, 0, 0, 0, 0, 0, 1>>, HighBit(8), <<127>> \o Ones(7)}}

\* texts of up to MaxText bytes over NUL and two letters
TextValues ==
    UNION {{[t |-> 13 + 2 * n, body |-> b] : b \in [1..n -> {0, 65, 66}]} : n \in 0..MaxText}

OtherValues ==
    {[t |-> 0, body |-> <<>>], [t |-> 8, body |-> <<>>], [t |-> 9, body |-> <<>>],
     [t |-> 10, body |-> <<>>], [t |-> 11, body |-> <<>>],
     [t |-> 7, body |-> <<64, 9, 33, 251, 84, 68, 45, 24>>],
     [t |-> 12, body |-> <<>>], [t |-> 16, body |-> <<0, 255>>]}

\* the values of a fixture have a body of the width of their type
Fitted(v) == [v EXCEPT !.body = IF v.t \in 1..6 THEN SubSeq(v.body, 1, BodyWidth(v.t)) ELSE @]

FirstValues ==
    {[t |-> 0, body |-> <<>>], [t |-> 1, body |-> <<255>>], [t |-> 10, body |-> <<>>],
     [t |-> 11, body |-> <<>>], [t |-> 3, body |-> <<255, 255, 255>>],
     [t |-> 17, body |-> <<65, 0>>]}

\* the payload of a cell that holds the values vs, without its last `cut` bytes
RECURSIVE Bodies(_)
Bodies(vs) == IF vs = <<>> THEN <<>> ELSE Head(vs).body \o Bodies(Tail(vs))

RecordBytes(vs, cut) ==
    LET all == <<1 + Len(vs)>> \o [k \in 1..Len(vs) |-> vs[k].t] \o Bodies(vs)
    IN SubSeq(all, 1, Len(all) - cut)

RecordInputs ==
    {[enc |-> e, vals |-> <<a, Fitted(b)>>, s |-> RecordBytes(<<a, Fitted(b)>>, cut)] :
        e \in {UTF8, UTF16LE, UTF16BE}, a \in FirstValues,
        b \in IntegerValues \cup TextValues \cup OtherValues, cut \in 0..1}

\* payloads that are a header-size byte H and up to MaxHeaderBytes bytes after it:
\* serial types of one byte and of two, H smaller and larger than the bytes there are
HeaderInputs ==
    {[enc |-> UTF8, vals |-> <<>>, s |-> <<h>> \o b] :
        h \in 0..(MaxHeaderBytes + 1),
        b \in UNION {[1..n -> {0, 1, 5, 14, 129}] : n \in 0..MaxHeaderBytes}}

RecordIdle ==
    /\ rIn = [enc |-> UTF8, vals |-> <<>>, s |-> <<>>]
    /\ rec = NoRecord
    /\ rOut = NoValue

RecordInit ==
    /\ rIn \in RecordInputs \cup HeaderInputs
    /\ rec = NoRecord
    /\ rOut = NoValue

----------------------------------------------------------------------------
(* sqlite.go: File.Schema and File.Object                                  *)
(* A string is the sequence of its bytes. Tree.Walk hands the cells of the  *)
(* tree at page 1 to the visitor in order, and may fail before any of them. *)

\* "table" and "index"
TableText == <<116, 97, 98, 108, 101>>
IndexText == <<105, 110, 100, 101, 120>>

\* a run-time panic inside a method of Record: the program aborts
Panics(v) == v.state = "panic"

\* Record.AsString(c): the string and the error
AsString(r, c) ==
    LET v == ValueAt(r, c)
    IN IF v.err # NoError THEN [s |-> <<>>, err |-> v.err]
       ELSE IF v.val.kind = "string" THEN [s |-> v.val.bytes, err |-> NoError]
       ELSE [s |-> <<>>, err |-> NoError]

\* Record.AsInt(c), through AsInt64: the number and the error. An int64 is given as
\* a number when it fits the numbers of the model and by its bits otherwise; the
\* int64(n) of a float64 n is given by the bits of n.
AsInt(r, c) ==
    LET v == ValueAt(r, c)
    IN IF v.err # NoError THEN [n |-> 0, err |-> v.err]
       ELSE IF v.val.kind = "float64"
       THEN [n |-> [truncated |-> v.val.bits], err |-> NoError]
       ELSE IF v.val.kind = "int64"
       THEN [n |-> IF Int64Small(v.val.bits) THEN Int64Value(v.val.bits)
                   ELSE [bits |-> v.val.bits],
             err |-> NoError]
       ELSE [n |-> 0, err |-> NoError]

\* NewObject(name, typ, sql, NewTree(f, f.Pager, root))
NewObject(name, typ, sql, root) == [name |-> name, typ |-> typ, sql |-> sql, root |-> root]

\* a visitor that takes records of every type
MutIsListed(typ) == TRUE

\* `typ == "table" || typ == "index"`
IsListed(typ) == typ = TableText \/ typ = IndexText

\* the visitor of File.Schema on a record: `objects` afterwards. The errors of the
\* four As... calls are dropped.
SchemaVisitor(objects, r) ==
    LET typ == AsString(r, 0).s
        name == AsString(r, 1).s
        root == AsInt(r, 3).n
        sql == AsString(r, 4).s
    IN IF IsListed(typ) THEN Append(objects, NewObject(name, typ, sql, root)) ELSE objects

\* one of the calls of the visitor on r aborts the program
VisitorPanics(r) == \E c \in {0, 1, 3, 4} : Panics(ValueAt(r, c))

NoObject == [state |-> "nil"]

\* a lookup that takes the last object of the name
MutFirstNamed(objects, name) ==
    CHOOSE k \in 1..Len(objects) :
        /\ objects[k].name = name
        /\ \A j \in (k + 1)..Len(objects) : objects[j].name # name

\* the loop of File.Object: the index of the object it returns
FirstNamed(objects, name) ==
    CHOOSE k \in 1..Len(objects) :
        /\ objects[k].name = name
        /\ \A j \in 1..(k - 1) : objects[j].name # name

\* File.Object(name), from the return of f.Schema()
ObjectResult(objects, err, name) ==
    IF err # NoError THEN [state |-> "returned", obj |-> NoObject, err |-> err]
    ELSE IF \E k \in 1..Len(objects) : objects[k].name = name
    THEN [state |-> "returned", err |-> NoError,
          obj |-> [state |-> "object", o |-> objects[FirstNamed(objects, name)]]]
    ELSE [state |-> "returned", obj |-> NoObject, err |-> "object not found"]

NoCall == [pc |-> "idle", caller |-> "none", name |-> <<>>, k |-> 0, objects |-> <<>>]

NotReturned == [state |-> "none"]

\* File.Schema is called, by the program or by File.Object(name)
SchemaCall(caller, name) ==
    /\ sch.pc = "idle"
    /\ sch' = [pc |-> "walk", caller |-> caller, name |-> name, k |-> 0, objects |-> <<>>]
    /\ UNCHANGED <<sIn, sOut, oOut>>

\* `return objects, err` of File.Schema, and the rest of File.Object when it is the
\* caller
SchemaReturn(objects, err) ==
    /\ sch' = [sch EXCEPT !.pc = "done", !.objects = objects]
    /\ sOut' = [state |-> "returned", objects |-> objects, err |-> err]
    /\ oOut' = IF sch.caller = "Object" THEN ObjectResult(objects, err, sch.name)
               ELSE oOut

\* the walk hands the next cell to the visitor of Object.ForEach: NewRecord, then the
\* visitor of File.Schema, which always returns nil
SchemaVisit ==
    /\ sch.pc = "walk"
    /\ sch.k < Len(sIn.rows)
    /\ sIn.fails # sch.k + 1
    /\ \E r \in {NewRecord(sIn.enc, [s |-> sIn.rows[sch.k + 1], i |-> 0])} :
        IF r.state = "error" THEN SchemaReturn(sch.objects, r.err)
        ELSE IF VisitorPanics(r)
        THEN /\ sch' = [sch EXCEPT !.pc = "done"]
             /\ sOut' = [state |-> "panic", objects |-> <<>>, err |-> "index out of range"]
             /\ oOut' = IF sch.caller = "Object" THEN sOut' ELSE oOut
        ELSE /\ sch' = [sch EXCEPT !.k = @ + 1, !.objects = SchemaVisitor(@, r)]
             /\ UNCHANGED <<sOut, oOut>>
    /\ UNCHANGED sIn

\* the walk fails on the way to its next cell (ReadPage, newNode or LoadCell)
SchemaWalkFails ==
    /\ sch.pc = "walk"
    /\ sIn.fails = sch.k + 1
    /\ SchemaReturn(sch.objects, "walk failed")
    /\ UNCHANGED sIn

\* the walk has handed over every cell
SchemaWalkEnds ==
    /\ sch.pc = "walk"
    /\ sch.k = Len(sIn.rows)
    /\ sIn.fails # sch.k + 1
    /\ SchemaReturn(sch.objects, NoError)
    /\ UNCHANGED sIn

----------------------------------------------------------------------------
(* The schema tables File.Schema is run on                                 *)

\* a text value
TextValue(b) == [t |-> 13 + 2 * Len(b), body |-> b]

\* an integer value of one byte
ByteValue(n) == [t |-> 1, body |-> <<n>>]

\* "view"
ViewText == <<118, 105, 101, 119>>

\* the names of the objects: "A" and "B"
SchemaNames == {<<65>>, <<66>>}

\* a row of a schema table as sqlite writes it: type, name, tbl_name, rootpage, sql;
\* every row has an sql text of its own
SchemaRow(ty, nm, root) ==
    <<TextValue(ty), TextValue(nm), TextValue(nm), ByteValue(root),
      TextValue(<<ty[1], nm[1], 48 + root>>)>>

\* tables of either name at either root page, an index and views
SchemaRows ==
    {SchemaRow(TableText, nm, root) : nm \in SchemaNames, root \in {2, 3}}
    \cup {SchemaRow(IndexText, <<65>>, 3), SchemaRow(ViewText, <<65>>, 2),
          SchemaRow(ViewText, <<66>>, 3)}

\* rows that are not as sqlite writes them: a name that is a number, a root page that
\* is a text, a reserved serial type for the sql, and rows of four, three and two values
OddRows ==
    {<<TextValue(TableText), ByteValue(7), TextValue(<<65>>), ByteValue(2), TextValue(<<83>>)>>,
     <<TextValue(TableText), TextValue(<<65>>), TextValue(<<65>>), TextValue(<<50>>),
       TextValue(<<83>>)>>,
     <<TextValue(IndexText), TextValue(<<66>>), TextValue(<<65>>), ByteValue(3),
       [t |-> 10, body |-> <<>>]>>,
     <<TextValue(TableText), TextValue(<<65>>), TextValue(<<65>>), ByteValue(2)>>,
     <<TextValue(TableText), TextValue(<<65>>), TextValue(<<65>>)>>,
     <<TextValue(TableText), TextValue(<<65>>)>>}

\* the payloads of the cells: whole rows, rows without their last byte, and a payload
\* whose header runs past its end
WholeCells(rows) == {[vals |-> vs, cut |-> 0, s |-> RecordBytes(vs, 0)] : vs \in rows}

SchemaCells ==
    WholeCells(SchemaRows \cup OddRows)
    \cup {[vals |-> vs, cut |-> 1, s |-> RecordBytes(vs, 1)] :
              vs \in {v \in SchemaRows : v[1].body = TableText /\ v[4].body = <<2>>}}
    \cup {[vals |-> <<>>, cut |-> 0, s |-> <<3, 1>>]}

\* up to two cells of any kind, in either encoding when there is one; longer tables
\* hold whole rows as sqlite writes them
SchemaInputs ==
    UNION {{[enc |-> e, cells |-> cs, rows |-> [k \in 1..n |-> cs[k].s], fails |-> f] :
               e \in (IF n <= 1 THEN {UTF8, UTF16LE} ELSE {UTF8}),
               cs \in [1..n -> IF n <= 2 THEN SchemaCells ELSE WholeCells(SchemaRows)],
               f \in 0..(n + 1)} :
           n \in 0..MaxRows}

SchemaIdle ==
    /\ sIn = [enc |-> UTF8, cells |-> <<>>, rows |-> <<>>, fails |-> 0]
    /\ sch = NoCall
    /\ sOut = NotReturned
    /\ oOut = NotReturned

----------------------------------------------------------------------------
(* Open: specification                                                     *)

PagerIdle ==
    /\ src = <<>>
    /\ srcPos = 0
    /\ srcMode = "ok"
    /\ pager = [size |-> 0, pages |-> 0]
    /\ pc = <<>>
    /\ arg = <<>>
    /\ savedPos = <<>>
    /\ entryPos = <<>>
    /\ ops = <<>>
    /\ ret = <<>>

----------------------------------------------------------------------------
(* Pager: specifications                                                   *)

\* one caller: every call runs to its end before the next one starts
PagerInit ==
    /\ PagerInitWith({1}, {"ok", "seekfail", "readfail"})
    /\ OpenIdle /\ VarintIdle /\ SpillIdle /\ CellIdle /\ WalkIdle /\ RecordIdle /\ SchemaIdle

PagerNext ==
    /\ \/ \E i \in PageIds : ReadPageEnter(1, i)
       \/ ReadPageSavePos(1)
       \/ ReadPageSeek(1)
       \/ ReadPageRead(1)
       \/ ReadPageRestore(1)
       \/ ReadPageReturn(1)
    /\ UNCHANGED nonPagerVars

PagerSpec == PagerInit /\ [][PagerNext]_vars

\* two callers share the pager and a source that never fails; each makes one call,
\* and the steps of the two calls interleave freely
PagerConcInit ==
    /\ PagerInitWith({1, 2}, {"ok"})
    /\ OpenIdle /\ VarintIdle /\ SpillIdle /\ CellIdle /\ WalkIdle /\ RecordIdle /\ SchemaIdle

PagerConcNext ==
    /\ \E c \in DOMAIN pc :
           \/ \E i \in PageIds : ReadPageEnter(c, i)
           \/ ReadPageSavePos(c)
           \/ ReadPageSeek(c)
           \/ ReadPageRead(c)
           \/ ReadPageRestore(c)
    /\ UNCHANGED nonPagerVars

PagerConcSpec == PagerConcInit /\ [][PagerConcNext]_vars

----------------------------------------------------------------------------
(* Open: specification, continued                                          *)

OpenSpecInit ==
    OpenInit /\ PagerIdle /\ VarintIdle /\ SpillIdle /\ CellIdle /\ WalkIdle /\ RecordIdle /\ SchemaIdle

OpenNext ==
    Open /\ UNCHANGED <<pagerVars, varintVars, spillVars, cellVars, walkVars, recordVars, schemaVars>>

OpenSpec == OpenSpecInit /\ [][OpenNext]_vars

----------------------------------------------------------------------------
(* Varint: specification                                                   *)

VarintSpecInit ==
    VarintInit /\ PagerIdle /\ OpenIdle /\ SpillIdle /\ CellIdle /\ WalkIdle /\ RecordIdle /\ SchemaIdle

VarintNext ==
    /\ DecodeVarint
    /\ UNCHANGED <<pagerVars, openVars, spillVars, cellVars, walkVars, recordVars, schemaVars>>

VarintSpec == VarintSpecInit /\ [][VarintNext]_vars

----------------------------------------------------------------------------
(* computeBufferSize: specification                                        *)

SpillSpecInit ==
    SpillInit /\ PagerIdle /\ VarintIdle /\ CellIdle /\ WalkIdle /\ RecordIdle /\ SchemaIdle

SpillNext ==
    /\ ComputeSizes
    /\ UNCHANGED <<pagerVars, openVars, varintVars, cellVars, walkVars, recordVars, schemaVars>>

SpillSpec == SpillSpecInit /\ [][SpillNext]_vars

----------------------------------------------------------------------------
(* The database files LoadCell is run on                                   *)

\* the byte of the file at offset off where the format puts nothing else
FillerByte(off) == (off + 3 * (off \div 256)) % 253

\* encodings of the file format, for the numbers the files hold
EncodeVarint(n) ==
    IF n < 0 THEN [k \in 1..9 |-> 255]
    ELSE IF n < 128 THEN <<n>>
    ELSE IF n < 16384 THEN <<128 + (n \div 128), n % 128>>
    ELSE <<128 + (n \div 16384), 128 + ((n \div 128) % 128), n % 128>>

EncodeInt16(n) == <<n \div 256, n % 256>>

EncodeInt32(n) ==
    LET m == IF n < 0 THEN (n + 2147483647) + 1 ELSE n
    IN <<(IF n < 0 THEN 128 ELSE 0) + (m \div 16777216), (m \div 65536) % 256,
         (m \div 256) % 256, m % 256>>

\* the page of the node, and the pages of the overflow chain
RootPage == 2

FirstChainPage == 3

LastChainPage == 2 + MaxChain

\* the local payload size the file format gives a payload of P bytes
SpecLocal(U, P) ==
    LET X == U - 35
        M == (((U - 12) * 32) \div 255) - 23
        K == M + ((P - M) % (U - 4))
    IN IF P <= X THEN P ELSE IF K <= X THEN K ELSE M

\* the bytes of the cell before its payload
CellHeaderBytes(f) ==
    (IF f.kind \in {NodeTableInt, NodeIndexInt} THEN EncodeInt32(7) ELSE <<>>)
        \o (IF f.kind = NodeTableInt THEN <<>> ELSE EncodeVarint(f.P))
        \o (IF f.kind \in {NodeTableInt, NodeTableLeaf} THEN EncodeVarint(5) ELSE <<>>)

\* the id of the first overflow page the cell names
FirstOverflow(f) ==
    CASE f.chain = "none" -> 0
      [] f.chain = "past" -> LastChainPage + 1
      [] f.chain = "negative" -> -1
      [] OTHER -> FirstChainPage

\* the number of overflow pages the payload of the cell needs
PagesNeeded(f) ==
    LET U == f.ps - f.rt
    IN (f.P - SpecLocal(U, f.P) + U - 5) \div (U - 4)

\* the next-page id stored on overflow page k: the chain ends where the payload
\* ends ("good"), on its first page ("short"), on the last page of the file ("long"),
\* or never ("self", "cycle")
NextOverflow(f, k) ==
    CASE f.chain = "short" /\ k = FirstChainPage -> 0
      [] f.chain = "self" /\ k = FirstChainPage -> FirstChainPage
      [] f.chain = "cycle" /\ k = LastChainPage -> FirstChainPage
      [] f.chain \in {"good", "short"} /\ k >= FirstChainPage + PagesNeeded(f) - 1 -> 0
      [] OTHER -> IF k < LastChainPage THEN k + 1 ELSE 0

\* page 2: a b-tree node with one cell at page offset f.addr
NodePageBytes(f) ==
    LET interior == f.kind \in {NodeTableInt, NodeIndexInt}
        head == <<f.kind, 0, 0>> \o EncodeInt16(1) \o EncodeInt16(f.addr) \o <<0>>
                    \o (IF interior THEN EncodeInt32(0) ELSE <<>>)
                    \o EncodeInt16(f.addr)
        ch == CellHeaderBytes(f)
        local == SpecLocal(f.ps - f.rt, f.P)
        spills == f.kind # NodeTableInt /\ f.P > local
        idAt == f.addr + Len(ch) + local
        id == EncodeInt32(FirstOverflow(f))
    IN [k \in 1..f.ps |->
            IF k <= Len(head) THEN head[k]
            ELSE IF k > f.addr /\ k <= f.addr + Len(ch) THEN ch[k - f.addr]
            ELSE IF spills /\ k > idAt /\ k <= idAt + 4 THEN id[k - idAt]
            ELSE FillerByte((RootPage - 1) * f.ps + k - 1)]

OverflowPageBytes(f, pg) ==
    LET nx == EncodeInt32(NextOverflow(f, pg))
    IN [k \in 1..f.ps |-> IF k <= 4 THEN nx[k] ELSE FillerByte((pg - 1) * f.ps + k - 1)]

RECURSIVE ChainBytes(_, _)
ChainBytes(f, pg) ==
    IF pg > LastChainPage THEN <<>>
    ELSE OverflowPageBytes(f, pg) \o ChainBytes(f, pg + 1)

\* the file: page 1 (the file header and the schema, not read here), the node, the chain
FileBytes(f) ==
    [k \in 1..f.ps |-> FillerByte(k - 1)] \o NodePageBytes(f) \o ChainBytes(f, FirstChainPage)

\* the decoded first 100 bytes of the file
FileHeader(f) ==
    [Magic |-> Magic, PageSize |-> f.ps, ReadVersion |-> 1, PageReserved |-> f.rt,
     MaxEmbeddedFrac |-> 64, MinEmbeddedFrac |-> 32, LeafFrac |-> 32,
     ChangeCounter |-> 7, Size |-> LastChainPage, VersionValid |-> 7]

\* declared payload sizes: negative, empty, the largest local one, the first that
\* spills, those filling 1 .. MaxChain + 1 overflow pages, and one ending inside the
\* second overflow page
PayloadSizes(U) ==
    {-1, 0, U - 35, U - 34, 2 * U - 38}
        \cup {SpecLocal(U, U) + k * (U - 4) : k \in 1..(MaxChain + 1)}

\* a chain other than the well-formed one only where the payload spills, a cell at
\* the end of the page only with the well-formed chain, and one payload size for
\* the kinds whose payload LoadCell does not read
Fixtures ==
    UNION {{f \in [root : {RootPage}, ps : {ps}, rt : {rt},
                   kind : {NodeIndexInt, NodeTableInt, NodeIndexLeaf, NodeTableLeaf, 0},
                   P : PayloadSizes(ps - rt),
                   chain : {"good", "short", "long", "self", "cycle", "none", "past",
                            "negative"},
                   addr : {16, ps - 12}] :
               /\ f.chain # "good" => f.P > ps - rt - 35 /\ f.addr = 16
               /\ f.kind \in {NodeTableInt, 0} => f.P = 0} :
           ps \in {512, 1024}, rt \in {0, 8}}

\* Open on the file, and the pager of the File it returns
OpenDatabase ==
    /\ Open
    /\ pager' = IF opened'.kind = "file" THEN opened'.Pager ELSE pager
    /\ UNCHANGED <<src, srcPos, srcMode, pc, arg, savedPos, entryPos, ops, ret>>
    /\ UNCHANGED <<varintVars, spillVars, cellVars, walkVars, recordVars, schemaVars>>

CellInit ==
    /\ fx \in Fixtures
    /\ src = FileBytes(fx)
    /\ srcPos = 0
    /\ srcMode = "ok"
    /\ pager = [size |-> 0, pages |-> 0]
    /\ pc = <<>> /\ arg = <<>> /\ savedPos = <<>> /\ entryPos = <<>> /\ ops = <<>>
    /\ ret = <<>>
    /\ hdr = FileHeader(fx)
    /\ fileLen = Len(src)
    /\ opened = NotOpened
    /\ node = NoNode
    /\ lc = IdleFrame
    /\ buffer = <<>>
    /\ ov = NoReader
    /\ fetched = <<>>
    /\ ovOut = <<>>
    /\ cell = NoCell

CellSpecInit == CellInit /\ VarintIdle /\ SpillIdle /\ WalkIdle /\ RecordIdle /\ SchemaIdle

\* a step of io.Copy on the overflow reader
CopyStep ==
    /\ \/ OverflowReadEnter
       \/ OverflowReadFetch
       \/ OverflowReadTake
    /\ UNCHANGED <<src, srcMode, pager, pc, arg, savedPos, entryPos, ops, ret>>
    /\ UNCHANGED <<openVars, varintVars, spillVars, walkVars, recordVars, schemaVars>>

CellNext ==
    \/ OpenDatabase
    \/ /\ \/ ReadNode
          \/ \E pos \in 0..0 : LoadCellBegin(pos)
       /\ UNCHANGED <<src, srcMode, pager, pc, arg, savedPos, entryPos, ops, ret>>
       /\ UNCHANGED <<openVars, varintVars, spillVars, walkVars, recordVars, schemaVars>>
    \/ CopyStep

CellSpec == CellSpecInit /\ [][CellNext]_vars

\* io.Copy goes on calling Read, and a Read that has begun runs to its return
CellFairSpec ==
    /\ CellSpecInit /\ [][CellNext]_vars
    /\ WF_vars(CopyStep)

----------------------------------------------------------------------------
(* Tree.Walk: specification                                                *)

WalkSpecInit ==
    WalkInit /\ PagerIdle /\ OpenIdle /\ VarintIdle /\ SpillIdle /\ CellIdle /\ RecordIdle /\ SchemaIdle

WalkNext ==
    /\ \/ WalkBegin
       \/ WalkLoop
       \/ WalkVisit
       \/ WalkRight
       \/ WalkReturn
       \/ WalkUnwind
    /\ UNCHANGED <<pagerVars, openVars, varintVars, spillVars, cellVars, recordVars, schemaVars>>

WalkSpec == WalkSpecInit /\ [][WalkNext]_vars

----------------------------------------------------------------------------
(* Record: specification                                                   *)

RecordSpecInit ==
    RecordInit /\ PagerIdle /\ OpenIdle /\ VarintIdle /\ SpillIdle /\ CellIdle /\ WalkIdle /\ SchemaIdle

RecordNext ==
    /\ \/ MakeRecord
       \/ \E c \in -1..3 : ReadValue(c)
    /\ UNCHANGED <<pagerVars, openVars, varintVars, spillVars, cellVars, walkVars, schemaVars>>

RecordSpec == RecordSpecInit /\ [][RecordNext]_vars

----------------------------------------------------------------------------
(* Schema: specification                                                   *)

SchemaSpecInit ==
    /\ sIn \in SchemaInputs
    /\ sch = NoCall
    /\ sOut = NotReturned
    /\ oOut = NotReturned
    /\ PagerIdle /\ OpenIdle /\ VarintIdle /\ SpillIdle /\ CellIdle /\ WalkIdle /\ RecordIdle

SchemaNext ==
    /\ \/ SchemaCall("Schema", <<>>)
       \/ \E name \in SchemaNames \cup {<<67>>} : SchemaCall("Object", name)
       \/ SchemaVisit
       \/ SchemaWalkFails
       \/ SchemaWalkEnds
    /\ UNCHANGED <<pagerVars, openVars, varintVars, spillVars, cellVars, walkVars, recordVars>>

SchemaSpec == SchemaSpecInit /\ [][SchemaNext]_vars

----------------------------------------------------------------------------
(* Pager: properties                                                       *)

\* the bytes of page id in the source, when the source holds the whole page
PageAvailable(id) == id * pager.size <= Len(src)

PageBytes(id) == [k \in 1..pager.size |-> src[(id - 1) * pager.size + k]]

\* C1: ReadPage(id) with id outside 1..declared_pages fails with the out-of-range
\* error and makes no call on the byte source.
C1_OutOfRangeRejected ==
    \A c \in DOMAIN pc :
        (pc[c] = "done" /\ arg[c] \notin 1..pager.pages)
            => /\ ret[c].err = "page index out of range"
               /\ ~ret[c].hasPage
               /\ ops[c] = 0

\* C2: with two calls interleaved on one pager, a call that returns a page
\* returns the bytes of the page it asked for.
C2_ConcurrentReadsOwnPage ==
    \A c \in DOMAIN pc :
        (pc[c] = "done" /\ ret[c].hasPage /\ PageAvailable(arg[c]) /\ arg[c] >= 1)
            => ret[c].s = PageBytes(arg[c])

\* C3: for id in 1..declared_pages a finished ReadPage(id) returned either a page
\* of exactly page_size bytes, equal to the source bytes at (id-1)*page_size ..
\* id*page_size-1, with its cursor at 0, or an error and no page; a short source or
\* a failing seek or read gives the error.
C3_PageOrError ==
    \A c \in DOMAIN pc :
        (pc[c] = "done" /\ arg[c] \in 1..pager.pages)
            => /\ \/ /\ ret[c].hasPage
                     /\ ret[c].err = NoError
                     /\ Len(ret[c].s) = pager.size
                     /\ PageAvailable(arg[c])
                     /\ ret[c].s = PageBytes(arg[c])
                     /\ ret[c].i = 0
                     /\ PageLen(ret[c]) = pager.size
                  \/ /\ ~ret[c].hasPage
                     /\ ret[c].err # NoError
               /\ (~PageAvailable(arg[c]) \/ srcMode # "ok")
                      => (~ret[c].hasPage /\ ret[c].err # NoError)

\* a call for a page that does not start at offset 0 returned that page
C3_Witness ==
    \E c \in DOMAIN pc :
        /\ pc[c] = "done"
        /\ arg[c] = 2
        /\ ret[c].hasPage
        /\ pager.size > 1

\* C30: with one call at a time, a finished ReadPage has left the seek position of
\* the byte source where it was when the call began, whether it returned a page or
\* failed after the bounds check (or at it); the pager holds its page size and page
\* count and no position.
C30_SeekPositionKept ==
    /\ \A c \in DOMAIN pc : pc[c] = "done" => srcPos = entryPos[c]
    /\ DOMAIN pager = {"size", "pages"}

\* a call that began at another offset than that of its page failed on a source
\* that ends inside the page, after the read had moved the position
C30_Witness ==
    \E c \in DOMAIN pc :
        /\ pc[c] = "done"
        /\ ret[c].err = "unexpected EOF"
        /\ ops[c] = 4
        /\ entryPos[c] # PageOffset(arg[c], pager.size)
        /\ entryPos[c] # Len(src)
        /\ srcPos = entryPos[c]

----------------------------------------------------------------------------
(* Open: properties                                                        *)

\* ceil(n / d) for n >= 0, d > 0: the least k with k * d >= n
CeilDiv(n, d) == CHOOSE k \in 0..n : k * d >= n /\ (k = 0 \/ (k - 1) * d < n)

\* C4: Open fails with an error on every source whose magic differs from the magic
\* string, whatever the other header fields and the length of the source are.
C4_BadMagicRejected ==
    (opened.kind # "none" /\ hdr.Magic # Magic) => opened.kind = "error"

\* C5: every File that Open returns has page_size - reserved_tail >= 480 on the
\* integers, and no header with page_size - reserved_tail < 480 yields a File.
C5_UsableAtLeast480 ==
    /\ opened.kind = "file"
           => opened.Header.PageSize - opened.Header.PageReserved >= MinUsable
    /\ (opened.kind # "none" /\ hdr.PageSize - hdr.PageReserved < MinUsable)
           => opened.kind # "file"

\* a header that is valid when its page-size field 1 is read as 65536
ValidWithPageSizeOne ==
    /\ fileLen >= HeaderSize
    /\ hdr.Magic = Magic
    /\ hdr.ReadVersion <= 2
    /\ hdr.PageSize = 1
    /\ 65536 - hdr.PageReserved >= MinUsable
    /\ hdr.MaxEmbeddedFrac = 64 /\ hdr.MinEmbeddedFrac = 32 /\ hdr.LeafFrac = 32

\* C6: a page-size field of 1 means a page size of 65536: Open succeeds on an
\* otherwise valid header, PageSize() is 65536 and the pager reads 65536-byte pages.
C6_PageSizeOneIs65536 ==
    (opened.kind # "none" /\ ValidWithPageSizeOne)
        => /\ opened.kind = "file"
           /\ PageSize(opened) = 65536
           /\ opened.Pager.size = 65536

\* C7: after a successful Open, NumPages() is ceil(file_len / page_size) when the
\* in-header page count is zero or the change counter differs from the
\* version-valid-for field, and the in-header page count otherwise.
C7_NumPages ==
    opened.kind = "file"
        => NumPages(opened) =
               IF hdr.Size = 0 \/ hdr.ChangeCounter # hdr.VersionValid
               THEN CeilDiv(fileLen, PageSize(opened))
               ELSE hdr.Size

\* a successful Open that computed the page count of a source ending in a partial page
C7_Witness ==
    /\ opened.kind = "file"
    /\ hdr.Size = 0
    /\ fileLen % PageSize(opened) # 0
    /\ NumPages(opened) > 1

\* C28: on every 100-byte header Open returns a File or an error and never aborts; a
\* header with page size 0 whose page count is recomputed (in-header count 0, or a
\* change counter that differs from version-valid-for) gives an error.
C28_OpenNeverAborts ==
    /\ (opened.kind # "none" /\ fileLen >= HeaderSize) => opened.kind \in {"file", "error"}
    /\ (opened.kind # "none" /\ fileLen >= HeaderSize /\ hdr.PageSize = 0
            /\ (hdr.Size = 0 \/ hdr.ChangeCounter # hdr.VersionValid))
           => opened.kind = "error"

----------------------------------------------------------------------------
(* Varint: properties                                                      *)

\* the number of bytes of a varint that starts the input: up to and including the
\* first byte below 0x80 among the first eight, else nine; 0 when the input ends before
VarintLength(bytes) ==
    LET ends == {i \in 1..Min2(Len(bytes), 8) : bytes[i] < 128}
    IN IF ends # {} THEN CHOOSE i \in ends : \A j \in ends : i <= j
       ELSE IF Len(bytes) >= 9 THEN 9
       ELSE 0

\* the bits of the value of an n-byte varint: seven bits of each of the first eight
\* bytes, then the eight bits of the ninth, padded with zeros on the left
VarintBits(bytes, n) ==
    LET m == Min2(n, 8)
        low == [j \in 1..(7 * m) |->
                   Bits(bytes[((j - 1) \div 7) + 1] % 128, 7)[((j - 1) % 7) + 1]]
    IN IF n = 9 THEN low \o Bits(bytes[9], 8) ELSE Zeros(64 - 7 * m) \o low

\* the value of a varint of at most four bytes, as a number
RECURSIVE VarintNumber(_, _)
VarintNumber(bytes, n) ==
    IF n = 0 THEN 0 ELSE 128 * VarintNumber(bytes, n - 1) + (bytes[n] % 128)

\* C8: Varint reads bytes up to and including the first byte with a clear high bit,
\* at most nine; the result holds the low 7 bits of each of the first eight bytes,
\* most significant first, with all 8 bits of a ninth byte appended below them,
\* read as two's complement; an input that ends early gives an error and no value.
C8_Varint ==
    vOut.called =>
        LET n == VarintLength(vIn) IN
        IF n = 0
        THEN /\ vOut.r.err # NoError
             /\ vOut.r.val = Zeros(64)
        ELSE /\ vOut.r.err = NoError
             /\ vOut.r.pos = n
             /\ vOut.r.val = VarintBits(vIn, n)
             /\ (n <= 4 => /\ Int64Small(vOut.r.val)
                           /\ Int64Value(vOut.r.val) = VarintNumber(vIn, n))
             /\ (vOut.r.val[1] = 1) <=> (n = 9 /\ vIn[1] % 128 >= 64)

\* a nine-byte varint whose ninth byte has its high bit set was decoded
C8_Witness ==
    /\ vOut.called
    /\ vOut.r.err = NoError
    /\ vOut.r.pos = 9
    /\ vIn[9] = 255
    /\ vIn[1] = 136

----------------------------------------------------------------------------
(* computeBufferSize: properties                                           *)

\* the usable size of an opened file, as the code computes it
UsableOf(f) == UsableSize(f.Header)

\* C9: computeBufferSize returns local = P and overflow = 0 when P <= X = U - 35;
\* otherwise, with M = ((U - 12) * 32 / 255) - 23 and K = M + ((P - M) mod (U - 4)),
\* local = K if K <= X, else M, and overflow = P - local.
C9_SpillFormula ==
    spOut.called =>
        LET U == UsableOf(opened)
            P == spP
            X == U - 35
            M == (((U - 12) * 32) \div 255) - 23
            K == M + ((P - M) % (U - 4))
        IN /\ spOut.r.total = P
           /\ IF P <= X
              THEN spOut.r.local = P /\ spOut.r.overflow = 0
              ELSE /\ spOut.r.local = (IF K <= X THEN K ELSE M)
                   /\ spOut.r.overflow = P - spOut.r.local

\* a payload that spills and keeps only the minimum local part
C9_Witness ==
    /\ spOut.called
    /\ spP > UsableOf(opened) - 35
    /\ spOut.r.local = (((UsableOf(opened) - 12) * 32) \div 255) - 23
    /\ spOut.r.overflow > 0

\* C25: for every U >= 480 and every P >= 0 the sizes computeBufferSize returns
\* satisfy local + overflow = P, and overflow = 0 exactly when P <= X = U - 35; when
\* P > X, M <= local <= X and overflow > 0. A payload of X bytes is local as a
\* whole, one of X + 1 bytes has an overflow part of P - local > 0 bytes.
C25_SpillBoundary ==
    (spOut.called /\ opened.Header.PageSize - opened.Header.PageReserved >= 480 /\ spP >= 0) =>
        LET U == opened.Header.PageSize - opened.Header.PageReserved
            X == U - 35
            M == (((U - 12) * 32) \div 255) - 23
        IN /\ spOut.r.local + spOut.r.overflow = spP
           /\ (spOut.r.overflow = 0) <=> (spP <= X)
           /\ spP > X => /\ M <= spOut.r.local
                         /\ spOut.r.local <= X
                         /\ spOut.r.overflow > 0
           /\ spP = X => spOut.r.local = X
           /\ spP = X + 1 => /\ spOut.r.overflow = spP - spOut.r.local
                             /\ spOut.r.overflow > 0

\* the least payload that spills: its overflow part is not empty
C25_Witness ==
    /\ spOut.called
    /\ opened.Header.PageSize - opened.Header.PageReserved >= 480
    /\ spP = opened.Header.PageSize - opened.Header.PageReserved - 35 + 1
    /\ spOut.r.overflow > 0
    /\ spOut.r.local + spOut.r.overflow = spP

----------------------------------------------------------------------------
(* LoadCell: properties                                                    *)

\* the file offset of the payload of the cell
PayloadStart(f) == (f.root - 1) * f.ps + f.addr + Len(CellHeaderBytes(f))

\* the big-endian 32-bit number stored at file offset off
StoredInt32(off) == BigEndianInt32(SubSeq(src, off + 1, off + 4))

\* the bytes of the file the pieces name: n bytes at offset `at` of page id
RECURSIVE PieceBytes(_, _)
PieceBytes(pieces, ps) ==
    IF pieces = <<>> THEN <<>>
    ELSE LET c == Head(pieces)
             off == (c.id - 1) * ps + c.at
         IN SubSeq(src, off + 1, off + c.n) \o PieceBytes(Tail(pieces), ps)

\* piece d goes on where piece c ends: on the same page, or at the start of the
\* payload of the page that the page of c names as the next of the chain
Follows(c, d, ps) ==
    \/ d.id = c.id /\ d.at = c.at + c.n
    \/ d.id = StoredInt32((c.id - 1) * ps) /\ d.at = 4

\* C10: when LoadCell on a table-leaf, index-interior or index-leaf cell with declared
\* payload size P returns a cell, the payload of the cell is exactly P bytes: the local
\* bytes of the cell, then bytes of the pages of the overflow chain, in the order of
\* the chain, which starts at the page id stored after the local bytes.
C10_CellPayload ==
    (cell.state = "cell" /\ fx.kind \in {NodeTableLeaf, NodeIndexInt, NodeIndexLeaf}) =>
        LET P == fx.P
            L == SpecLocal(fx.ps - fx.rt, P)
            start == PayloadStart(fx)
        IN /\ Len(cell.s) = P
           /\ cell.Size = P
           /\ SubSeq(cell.s, 1, L) = SubSeq(src, start + 1, start + L)
           /\ SubSeq(cell.s, L + 1, P) = PieceBytes(ovOut, fx.ps)
           /\ P > L => /\ ovOut # <<>>
                       /\ ovOut[1].id = StoredInt32(start + L)
                       /\ ovOut[1].at = 4
                       /\ fetched[1] = StoredInt32(start + L)
           /\ \A j \in 1..(Len(ovOut) - 1) : Follows(ovOut[j], ovOut[j + 1], fx.ps)

\* a table-leaf cell is returned whose payload comes from the node and from more
\* than one overflow page
C10_Witness ==
    /\ cell.state = "cell"
    /\ fx.kind = NodeTableLeaf
    /\ \E j \in 1..Len(ovOut) : ovOut[j].id # ovOut[1].id
    /\ Len(cell.s) = fx.P

\* the number of bytes the pieces hold
RECURSIVE PieceCount(_)
PieceCount(pieces) ==
    IF pieces = <<>> THEN 0 ELSE Head(pieces).n + PieceCount(Tail(pieces))

\* the chain of the file holds the payload bytes the cell keeps outside the node
ChainHolds(f) ==
    /\ f.chain \in {"good", "long", "cycle"}
    /\ f.chain # "cycle" => PagesNeeded(f) <= MaxChain

\* C11: an overflow reader built with byte count n on a chain that holds at least n
\* payload bytes, read to its end as io.Copy does, delivers exactly n bytes and then
\* reports end-of-stream, whatever next-page id the page of the n-th byte stores;
\* the read loop terminates.
C11_OverflowReadEnds ==
    (lc.pc = "copy" /\ ChainHolds(fx))
        ~> (lc.pc = "done" /\ cell.state = "cell" /\ PieceCount(ovOut) = ov.size)

\* the chain that starts at page id ends (next-page id 0, or id = 0) within k pages
RECURSIVE EndsWithin(_, _, _)
EndsWithin(id, k, ps) ==
    IF id = 0 THEN TRUE
    ELSE IF k = 0 \/ id < 1 \/ id * ps > Len(src) THEN FALSE
    ELSE EndsWithin(StoredInt32((id - 1) * ps), k - 1, ps)

\* the cell keeps payload bytes outside the node
Spills(f) ==
    /\ f.kind \in {NodeTableLeaf, NodeIndexInt, NodeIndexLeaf}
    /\ f.P > SpecLocal(f.ps - f.rt, f.P)

\* the id of the first overflow page, as the file stores it after the local bytes
StoredFirstOverflow(f) == StoredInt32(PayloadStart(f) + SpecLocal(f.ps - f.rt, f.P))

\* the cell, with its local bytes and the id that follows them, lies inside its page
InsidePage(f) ==
    f.addr + Len(CellHeaderBytes(f)) + SpecLocal(f.ps - f.rt, f.P) + 4 <= f.ps

\* the chain of the cell ends before it has supplied the bytes the cell needs
EndsEarly(f) ==
    /\ Spills(f)
    /\ InsidePage(f)
    /\ EndsWithin(StoredFirstOverflow(f), PagesNeeded(f) - 1, f.ps)

C24_ReservedTailKept ==
    \A j \in 1..Len(ovOut) :
        /\ ovOut[j].at >= 4
        /\ ovOut[j].at + ovOut[j].n <= fx.ps - fx.rt

----------------------------------------------------------------------------
(* Tree.Walk: properties                                                   *)

NodeKinds == {NodeIndexInt, NodeTableInt, NodeIndexLeaf, NodeTableLeaf}

\* a page whose kind byte is none of the four kinds has been read and parsed as a node
ParsedUnknownKind ==
    \E k \in 1..Len(wreads) :
        /\ wreads[k] \in 1..MaxTreePages
        /\ wt[wreads[k]].kind \notin NodeKinds

\* C13: parsing a page whose kind byte is not 0x02, 0x05, 0x0A or 0x0D as a node is
\* rejected with an error, whatever its cell count: from then on the walk is returning
\* an error to its caller; it neither goes on, nor succeeds, nor aborts the program.
C13_UnknownKindRejected ==
    ParsedUnknownKind =>
        /\ wret.state \in {"unwinding", "returned"}
        /\ wret.err # NoError

\* the tree below page p is sound: every child pointer names a page of the file, every
\* page is of a known kind, and no path is longer than the file has pages
RECURSIVE SoundFrom(_, _)
SoundFrom(p, fuel) ==
    /\ fuel > 0
    /\ p \in 1..MaxTreePages
    /\ wt[p].kind \in NodeKinds
    /\ \A i \in 1..Len(wt[p].cells) :
           wt[p].cells[i].left = 0 \/ SoundFrom(wt[p].cells[i].left, fuel - 1)
    /\ wt[p].right = 0 \/ SoundFrom(wt[p].right, fuel - 1)

Sound == SoundFrom(WalkRoot, MaxTreePages)

\* the in-order sequence of the cells of the tree below page p that carry a payload:
\* for each cell in index order its left subtree, then the cell unless the node is
\* table-interior; after the cells the right subtree
RECURSIVE InOrder(_, _), InOrderCells(_, _, _)
InOrder(p, fuel) ==
    IF fuel = 0 THEN <<>>
    ELSE InOrderCells(p, 1, fuel)
             \o (IF wt[p].right # 0 THEN InOrder(wt[p].right, fuel - 1) ELSE <<>>)

InOrderCells(p, i, fuel) ==
    IF i > Len(wt[p].cells) THEN <<>>
    ELSE (IF wt[p].cells[i].left # 0 THEN InOrder(wt[p].cells[i].left, fuel - 1) ELSE <<>>)
             \o (IF wt[p].kind # NodeTableInt
                 THEN <<[page |-> p, i |-> i - 1, key |-> wt[p].cells[i].key]>>
                 ELSE <<>>)
             \o InOrderCells(p, i + 1, fuel)

IsPrefix(a, b) == Len(a) <= Len(b) /\ a = SubSeq(b, 1, Len(a))

VisitorFailed == wfail.at > 0 /\ Len(wvisited) >= wfail.at

\* C15: when the visitor returns an error, at any depth of the tree, Tree.Walk (and
\* with it Object.ForEach and File.ForEach) returns that same error; the visitor is
\* not invoked again and no further page is read.
C15_VisitorErrorStops ==
    /\ [](VisitorFailed =>
            /\ Len(wvisited) = wfail.at
            /\ wret.state \in {"unwinding", "returned"}
            /\ wret.err = (IF wfail.by = "fn" THEN "visitor error" ELSE "record error"))
    /\ [][VisitorFailed => (wvisited' = wvisited /\ wreads' = wreads)]_vars

\* the visitor failed on its second cell, below the root, and Walk has returned its error
C15_Witness ==
    /\ wret.state = "returned"
    /\ wret.err = "visitor error"
    /\ wfail.at = 2
    /\ Len(wvisited) = 2
    /\ wvisited[2].page # WalkRoot
    /\ Len(wreads) >= 2

\* C16: Tree.Walk terminates on every file: when child pointers form a cycle the walk
\* stops with an error once the depth of the recursion exceeds the number of pages of
\* the file; the recursion is never deeper than that by more than the call that
\* detects it, and the program does not run out of stack.
C16_DepthBounded ==
    /\ Len(wstack) <= MaxTreePages + 1
    /\ wret.state # "panic" \/ wret.err # "stack overflow"

\* the keys of all cells of the tree below page p
RECURSIVE KeysBelow(_, _)
KeysBelow(p, fuel) ==
    IF fuel = 0 \/ p = 0 THEN {}
    ELSE {wt[p].cells[i].key : i \in 1..Len(wt[p].cells)}
             \cup UNION {KeysBelow(wt[p].cells[i].left, fuel - 1) : i \in 1..Len(wt[p].cells)}
             \cup KeysBelow(wt[p].right, fuel - 1)

\* the tree below page p is a well-formed B-tree: keys ascend inside a node, the keys
\* of the left subtree of a cell lie above the key before the cell and are at most the
\* key of the cell (below it in an index, where the interior cell is an entry itself),
\* and the keys of the right subtree lie above every key of the node
RECURSIVE WellFormedFrom(_, _)
WellFormedFrom(p, fuel) ==
    LET c == wt[p].cells
        n == Len(c)
    IN /\ \A i \in 2..n : c[i - 1].key < c[i].key
       /\ \A i \in 1..n : c[i].left # 0 =>
              /\ WellFormedFrom(c[i].left, fuel - 1)
              /\ wt[c[i].left].kind \in {wt[p].kind, wt[p].kind + 8}
              /\ \A k \in KeysBelow(c[i].left, fuel - 1) :
                     /\ IF wt[p].kind = NodeTableInt THEN k <= c[i].key ELSE k < c[i].key
                     /\ i > 1 => k > c[i - 1].key
       /\ wt[p].right # 0 =>
              /\ WellFormedFrom(wt[p].right, fuel - 1)
              /\ wt[wt[p].right].kind \in {wt[p].kind, wt[p].kind + 8}
              /\ \A k \in KeysBelow(wt[p].right, fuel - 1) : n > 0 => k > c[n].key

WellFormed == Sound /\ WellFormedFrom(WalkRoot, MaxTreePages)

\* C17: on a well-formed table B-tree the rowids of the cells passed to the visitor
\* are strictly ascending, and on a well-formed index B-tree the entries visited,
\* interior cells included, are in ascending key order.
C17_AscendingKeys ==
    WellFormed =>
        \A a, b \in 1..Len(wvisited) : a < b => wvisited[a].key < wvisited[b].key

\* the walk of a well-formed table tree with leaves under both cells of the root and
\* a right child has ended
C17_Witness ==
    /\ WellFormed
    /\ wt[WalkRoot].kind = NodeTableInt
    /\ Len(wt[WalkRoot].cells) = 2
    /\ wret.state = "returned"
    /\ wret.err = NoError
    /\ {wvisited[a].page : a \in 1..Len(wvisited)} = {2, 3, 4}
    /\ Len(wvisited) >= 5

----------------------------------------------------------------------------
(* Record: properties                                                      *)

\* the value ValueAt was asked for, as the cell was built
AskedValue == rIn.vals[rOut.c + 1]

\* the offset in the cell of the first byte after value k (from 1)
EndOfValue(k) == 1 + Len(rIn.vals) + Len(Bodies(SubSeq(rIn.vals, 1, k)))

\* ValueAt was asked for a value of the record whose body the cell holds in full
AskedPresent ==
    /\ rOut.called
    /\ rOut.c \in 0..(Len(rIn.vals) - 1)
    /\ EndOfValue(rOut.c + 1) <= Len(rIn.s)

\* C18: ValueAt decodes serial types 1 .. 6 as the two's-complement signed value of
\* the 1, 2, 3, 4, 6 or 8 big-endian body bytes, for every bit pattern (0xFFFFFF and
\* 0xFFFFFFFFFFFF are -1).
C18_SignedIntegers ==
    (AskedPresent /\ AskedValue.t \in 1..6) =>
        /\ rOut.r.state = "value"
        /\ rOut.r.val = [kind |-> "int64", bits |-> SignExtend(BytesBits(AskedValue.body))]

\* C19: a value of the reserved serial types 10 and 11 is rejected (ValueAt returns an
\* error and no value), and it takes no body bytes when the offsets of the values
\* after it are computed.
C19_ReservedTypes ==
    /\ (AskedPresent /\ AskedValue.t \in {10, 11}) =>
           /\ rOut.r.state = "error"
           /\ rOut.r.val = NilValue
    /\ rec.state = "record" =>
           \A k \in 1..(Len(rec.values) - 1) :
               rec.values[k].Type \in {10, 11} =>
                   rec.values[k + 1].Offset = rec.values[k].Offset

\* ValueAt has rejected a first value of type 10 that another value follows at the
\* same offset
C19_Witness ==
    /\ AskedPresent
    /\ rOut.c = 0
    /\ AskedValue.t = 10
    /\ rOut.r.state = "error"
    /\ Len(rec.values) = 2
    /\ rec.values[2].Offset = rec.values[1].Offset
    /\ rec.values[2].Type = 3

\* the bytes of b before its first NUL byte
RECURSIVE BeforeNul(_)
BeforeNul(b) ==
    IF b = <<>> \/ Head(b) = 0 THEN <<>> ELSE <<Head(b)>> \o BeforeNul(Tail(b))

\* C20: for a value of odd serial type N >= 13 ValueAt reads (N - 13) / 2 body bytes;
\* when the text encoding of the file is UTF-8 it returns the bytes before the first
\* NUL byte (all of them when there is none) as a string, otherwise it returns an
\* error (unsupported) and no value.
C20_TextValues ==
    (AskedPresent /\ AskedValue.t >= 13 /\ AskedValue.t % 2 = 1) =>
        /\ Len(AskedValue.body) = (AskedValue.t - 13) \div 2
        /\ IF rIn.enc = UTF8
           THEN /\ rOut.r.state = "value"
                /\ rOut.r.val = [kind |-> "string", bytes |-> BeforeNul(AskedValue.body)]
           ELSE /\ rOut.r.state = "error"
                /\ rOut.r.err = "UTF-16 is not supported"
                /\ rOut.r.val = NilValue

\* a text of three bytes with a NUL in the middle, after another value, was read from
\* a UTF-8 file and came back as its first byte
C20_Witness ==
    /\ AskedPresent
    /\ rOut.c = 1
    /\ AskedValue = [t |-> 19, body |-> <<66, 0, 65>>]
    /\ rIn.enc = UTF8
    /\ rOut.r.state = "value"
    /\ rOut.r.val.bytes = <<66>>

\* the body size of a serial type in the table of the record format; the reserved
\* types 10 and 11 take no bytes
BodySize(v) ==
    IF v \in 1..4 THEN v
    ELSE IF v = 5 THEN 6
    ELSE IF v \in {6, 7} THEN 8
    ELSE IF v >= 12 THEN (IF v % 2 = 0 THEN (v - 12) \div 2 ELSE (v - 13) \div 2)
    ELSE 0

\* the serial types whose varints start at offsets p, ... below H of the payload s,
\* each with the offset of its body when the first body is at offset off
RECURSIVE TypesFrom(_, _, _, _)
TypesFrom(s, p, H, off) ==
    IF p >= H THEN <<>>
    ELSE LET rest == SubSeq(s, p + 1, Len(s))
             n == VarintLength(rest)
             v == VarintNumber(rest, n)
         IN IF n = 0 THEN <<>>
            ELSE <<[Type |-> v, Offset |-> off]>> \o TypesFrom(s, p + n, H, off + BodySize(v))

\* C26: NewRecord over a payload whose first varint is H yields one value for each
\* serial-type varint that starts within the first H bytes of the payload, in order,
\* and the offset of value i is H plus the body sizes of the values before it.
C26_RecordHeader ==
    rec.state = "record" =>
        LET n == VarintLength(rIn.s)
            H == VarintNumber(rIn.s, n)
        IN rec.values = TypesFrom(rIn.s, n, H, H)

\* a header of three bytes: a 48-bit integer at offset 3, then an 8-bit one at 9
C26_Witness ==
    /\ rec.state = "record"
    /\ rIn.s = <<3, 5, 1>>
    /\ rec.values = <<[Type |-> 5, Offset |-> 3], [Type |-> 1, Offset |-> 9]>>

\* C27: ValueAt(c) returns the out-of-range error, and does not abort, for every c
\* outside 0 .. NumValues() - 1: for c = NumValues() and for negative c too.
C27_OutOfRangeIsError ==
    (rOut.called /\ rec.state = "record" /\ rOut.c \notin 0..(NumValues(rec) - 1)) =>
        /\ rOut.r.state = "error"
        /\ rOut.r.err = "column index out of range"

\* the record NewRecord builds from the payload of the cell
FreshRecord == NewRecord(rIn.enc, [s |-> rIn.s, i |-> 0])

\* C29: ValueAt leaves the read position of the cell of the record where it was, on
\* success and on error, so a call of ValueAt(i) after other calls returns what the
\* first call on a record just built returns.
C29_ValueAtRepeatable ==
    /\ rec.state = "record" => rec.cell = FreshRecord.cell
    /\ rOut.called => rOut.r = ValueAt(FreshRecord, rOut.c)

\* in a UTF-16 file the text in the second column was refused, then the integer in
\* the first column was read, from the position NewRecord had left
C29_Witness ==
    /\ rOut.called
    /\ rOut.earlier = <<1>>
    /\ rOut.c = 0
    /\ rIn.enc = UTF16LE
    /\ rIn.vals = <<[t |-> 1, body |-> <<255>>], [t |-> 19, body |-> <<66, 0, 65>>]>>
    /\ rIn.s = RecordBytes(rIn.vals, 0)
    /\ rOut.r = ValueReturn(IntValue([k \in 1..64 |-> 1]))
    /\ rec.cell.i = 3

----------------------------------------------------------------------------
(* Schema: properties                                                      *)

\* the first column of the record of the cell is the text "table" or "index"
IsTableOrIndex(c) ==
    /\ c.vals # <<>>
    /\ c.vals[1] \in {TextValue(TableText), TextValue(IndexText)}

\* the cells whose record is a table or an index, in the order of the walk
RECURSIVE Listed(_)
Listed(cells) ==
    IF cells = <<>> THEN <<>>
    ELSE (IF IsTableOrIndex(Head(cells)) THEN <<Head(cells)>> ELSE <<>>) \o Listed(Tail(cells))

\* the cell holds a whole row of five columns: texts, with a number for the root page
IsWholeRow(c) == c.cut = 0 /\ c.vals \in SchemaRows

C22_ObjectByName ==
    (oOut.state = "returned" /\ sOut.err = NoError) =>
        LET named == {k \in 1..Len(sOut.objects) : sOut.objects[k].name = sch.name}
        IN IF named = {}
           THEN oOut.err = "object not found" /\ oOut.obj = NoObject
           ELSE /\ oOut.err = NoError
                /\ oOut.obj.state = "object"
                /\ \E k \in named : /\ \A j \in named : k <= j
                                    /\ oOut.obj.o = sOut.objects[k]

\* two tables of one name at different root pages: the lookup gave the first
C22_Witness ==
    /\ oOut.state = "returned"
    /\ sOut.err = NoError
    /\ sch.name = <<65>>
    /\ Len(sOut.objects) = 2
    /\ sOut.objects[1] = NewObject(<<65>>, TableText, <<116, 65, 51>>, 3)
    /\ sOut.objects[2] = NewObject(<<65>>, TableText, <<116, 65, 50>>, 2)
    /\ oOut.obj.o.root = 3

\* one of the four columns File.Schema reads of the record of cell k does not decode
DecodeFails(k) ==
    LET r == NewRecord(sIn.enc, [s |-> sIn.rows[k], i |-> 0])
    IN /\ r.state = "record"
       /\ \E c \in {0, 1, 3, 4} : ValueAt(r, c).state = "error"

\* C23: when the type, name, root page or sql column of a schema record does not
\* decode, File.Schema returns an error and no list of objects; it does not skip the
\* record or record it wrongly, and it never returns an error with a partial list.
C23_SchemaErrorsSurface ==
    sOut.state # "none" =>
        /\ (\E k \in 1..sch.k : DecodeFails(k)) =>
               /\ sOut.state = "returned"
               /\ sOut.err # NoError
               /\ sOut.objects = <<>>
        /\ (sOut.state = "returned" /\ sOut.err # NoError) => sOut.objects = <<>>

====
